---------------------------- MODULE Spec2Model ----------------------------
(***************************************************************************)
(* A model of the TOML-like codec of js/libraries/toml_like.js (the first, *)
(* most recent iteration in the file, lines 1-620): the character source   *)
(* adapter, the tokenizer, the grammar parsers and the encoder.            *)
(*                                                                         *)
(* Text is a sequence of characters; a character is a one-character        *)
(* string (JavaScript's string iterator yields code points).  A few        *)
(* characters outside ASCII are written by name: "E2" is U+00E9 (two bytes *)
(* in UTF-8), "E3" is U+20AC (three bytes), "E4" is U+1F600 (four bytes),  *)
(* "FFFD" is the replacement character U+FFFD, "NNBSP" is U+202F, "LAQUO"  *)
(* and "RAQUO" are the guillemets repr() puts around a string, "HELLIP" is *)
(* the ellipsis.                                                           *)
(***************************************************************************)
EXTENDS Integers, Sequences, FiniteSets, TLC

(***************************************************************************)
(* Characters and strings                                                  *)
(***************************************************************************)

DELIMITERS == <<"=", "\n", ";", ",", "(", ")", "[", "]", "{", "}", "#">>

LowerLetters ==
    <<"a", "b", "c", "d", "e", "f", "g", "h", "i", "j", "k", "l", "m",
      "n", "o", "p", "q", "r", "s", "t", "u", "v", "w", "x", "y", "z">>

UpperLetters ==
    <<"A", "B", "C", "D", "E", "F", "G", "H", "I", "J", "K", "L", "M",
      "N", "O", "P", "Q", "R", "S", "T", "U", "V", "W", "X", "Y", "Z">>

DigitChars == <<"0", "1", "2", "3", "4", "5", "6", "7", "8", "9">>

\* In applied to the value v, which In's body may then name many times; v
\* is bound as the element of a set, so that it is computed once
Let(v, In(_)) == CHOOSE r \in {In(x) : x \in {v}} : TRUE

Range(s) == {s[i] : i \in DOMAIN s}

Includes(s, c) == \E i \in DOMAIN s : s[i] = c

IndexIn(s, c) == CHOOSE i \in DOMAIN s : s[i] = c

IsDigit(c) == Includes(DigitChars, c)

IsLetter(c) == Includes(LowerLetters, c) \/ Includes(UpperLetters, c)

\* the characters JavaScript's /\s/ matches, among those of the model
IsSpace(c) == c \in {" ", "\t", "\n", "\r", "NNBSP"}

ToUpperChar(c) ==
    IF Includes(LowerLetters, c) THEN UpperLetters[IndexIn(LowerLetters, c)] ELSE c

ToLowerChar(c) ==
    IF Includes(UpperLetters, c) THEN LowerLetters[IndexIn(UpperLetters, c)] ELSE c

ToUpperCase(s) == [i \in DOMAIN s |-> ToUpperChar(s[i])]

ToLowerCase(s) == [i \in DOMAIN s |-> ToLowerChar(s[i])]

DigitValue(c) == IndexIn(DigitChars, c) - 1

RECURSIVE TrimStart(_)
TrimStart(s) ==
    IF s # <<>> /\ IsSpace(Head(s)) THEN TrimStart(Tail(s)) ELSE s

RECURSIVE TrimEnd(_)
TrimEnd(s) ==
    IF s # <<>> /\ IsSpace(s[Len(s)]) THEN TrimEnd(SubSeq(s, 1, Len(s) - 1)) ELSE s

Trim(s) == TrimEnd(TrimStart(s))

RECURSIVE Flat(_)
Flat(ss) ==
    IF ss = <<>> THEN <<>> ELSE Head(ss) \o Flat(Tail(ss))

Repeat(c, n) == [i \in 1..n |-> c]

\* the first index of s whose character satisfies Test, 0 when there is none
\* (String.prototype.search, plus one)
FirstIndex(s, Test(_)) ==
    IF \E i \in DOMAIN s : Test(s[i])
    THEN CHOOSE i \in DOMAIN s : Test(s[i]) /\ \A j \in 1..(i - 1) : ~Test(s[j])
    ELSE 0

(***************************************************************************)
(* The value model: what decode produces and encode accepts.  Every value  *)
(* is a record of the same shape; t is the type getValueType reports.      *)
(*   STRING   s: the characters                                            *)
(*   NUMBER   k: "FIN" | "NAN" | "INF"; finite: n * 10^e, with n not a     *)
(*            multiple of 10 unless n = 0 = e; INF: n is the sign (1, -1)  *)
(*   DATE     the instant: n days since the epoch and e milliseconds       *)
(*            into that day (0 <= e < MsPerDay)                            *)
(*   KEYWORD  k: "true" | "false" | "null" | "undefined"                   *)
(*   ARRAY    items: the values                                            *)
(*   MAP      items: the entries, in insertion order, keys unique          *)
(*   ENTRY    s: the key, items: <<value>>                                 *)
(***************************************************************************)

Val(t, k, s, n, e, items) ==
    [t |-> t, k |-> k, s |-> s, n |-> n, e |-> e, items |-> items]

Str(s) == Val("STRING", "", s, 0, 0, <<>>)

RECURSIVE Normalize(_, _)
Normalize(n, e) ==
    IF n = 0 THEN <<0, 0>>
    ELSE IF n % 10 = 0 THEN Normalize(n \div 10, e + 1)
    ELSE <<n, e>>

Abs(n) == IF n < 0 THEN -n ELSE n

Neg(n) == 0 - n

\* the number n * 10^e
Dec(n, e) ==
    Let(Normalize(Abs(n), e), LAMBDA a :
        Val("NUMBER", "FIN", <<>>, IF n < 0 THEN Neg(a[1]) ELSE a[1], a[2], <<>>))

Num(n) == Dec(n, 0)

NaN == Val("NUMBER", "NAN", <<>>, 0, 0, <<>>)

Inf(sign) == Val("NUMBER", "INF", <<>>, sign, 0, <<>>)

MsPerDay == 86400000

\* the instant ms milliseconds after the start of day days
Date(days, ms) ==
    Val("DATE", "", <<>>, days + (ms \div MsPerDay), ms % MsPerDay, <<>>)

Keyword(k) == Val("KEYWORD", k, <<>>, 0, 0, <<>>)

Arr(items) == Val("ARRAY", "", <<>>, 0, 0, items)

Map(entries) == Val("MAP", "", <<>>, 0, 0, entries)

Entry(key, value) == Val("ENTRY", "", key, 0, 0, <<value>>)

EmptyMap == Map(<<>>)

EntryKey(entry) == entry.s

EntryValue(entry) == entry.items[1]

MapHas(map, key) == \E i \in DOMAIN map.items : map.items[i].s = key

MapSetAppends(map, key, value) == Map(Append(map.items, Entry(key, value)))

\* Map.prototype.set: an existing key keeps its position and takes the new
\* value, a new key is appended
MapSet(map, key, value) ==
    IF MapHas(map, key)
    THEN Map([i \in DOMAIN map.items |->
                 IF map.items[i].s = key THEN Entry(key, value) ELSE map.items[i]])
    ELSE Map(Append(map.items, Entry(key, value)))

MapGet(map, key) ==
    EntryValue(map.items[CHOOSE i \in DOMAIN map.items : map.items[i].s = key])

(***************************************************************************)
(* Results.  A result is either a value or a thrown ConfigError, whose     *)
(* message is kept as the sequence of its pieces (text fragments and       *)
(* characters), in the order the code concatenates them.                   *)
(***************************************************************************)

Ok(text) == [ok |-> TRUE, text |-> text, msg |-> <<>>]

Fail(msg) == [ok |-> FALSE, text |-> <<>>, msg |-> msg]

RECURSIVE NatToChars(_)
NatToChars(n) ==
    IF n < 10 THEN <<DigitChars[n + 1]>>
    ELSE NatToChars(n \div 10) \o <<DigitChars[(n % 10) + 1]>>

IntToChars(n) == IF n < 0 THEN <<"-">> \o NatToChars(Neg(n)) ELSE NatToChars(n)

PadStart(s, size, c) == Repeat(c, size - Len(s)) \o s

\* what one character becomes in repr(): a backslash is doubled, the
\* control characters \r \n \t \f \v are written as their escapes
ReprChar(c) ==
    CASE c = "\\" -> <<"\\", "\\">>
      [] c = "\r" -> <<"\\", "r">>
      [] c = "\n" -> <<"\\", "n">>
      [] c = "\t" -> <<"\\", "t">>
      [] c = "\f" -> <<"\\", "f">>
      [] OTHER -> <<c>>

\* repr(value, {maxLength}) of a string value
repr(value, maxLength) ==
    Let(<<"LAQUO", "NNBSP">> \o value \o <<"NNBSP", "RAQUO">>, LAMBDA quoted :
    Let(Flat([i \in DOMAIN quoted |-> ReprChar(quoted[i])]), LAMBDA escaped :
    Let(Len(escaped) - maxLength, LAMBDA over :
        IF over > 0
        THEN SubSeq(escaped, 1, maxLength) \o <<"HELLIP", " ", "[", "+">>
                 \o NatToChars(over) \o <<"]", "NNBSP", "RAQUO">>
        ELSE escaped)))

ReprDefaultLength == 60

(***************************************************************************)
(* The encoder                                                             *)
(***************************************************************************)

getValueType(input) == input.t

\* String.prototype.replace(/"/g, '\\"')
EscapeQuotes(s) ==
    Flat([i \in DOMAIN s |-> IF s[i] = "\"" THEN <<"\\", "\"">> ELSE <<s[i]>>])

encodeString(input) == <<"\"">> \o EscapeQuotes(input.s) \o <<"\"">>

\* Number::toString of the finite number n * 10^e (n normalized): with
\* digits d1..dk and point position p = k + e,
\*   k <= p <= 21   the digits followed by p - k zeros
\*   0 < p <= 21    the digits with a point after the first p
\*   -6 < p <= 0    "0." then -p zeros then the digits
\*   otherwise      d1[.d2..dk]e(+|-)|p - 1|
NumberToString(n, e) ==
    Let(NatToChars(Abs(n)), LAMBDA digits :
    Let(Len(digits), LAMBDA k :
    Let(k + e, LAMBDA p :
        (IF n < 0 THEN <<"-">> ELSE <<>>)
            \o (IF k <= p /\ p <= 21 THEN digits \o Repeat("0", p - k)
                ELSE IF 0 < p /\ p <= 21
                THEN SubSeq(digits, 1, p) \o <<".">> \o SubSeq(digits, p + 1, k)
                ELSE IF -6 < p /\ p <= 0
                THEN <<"0", ".">> \o Repeat("0", Neg(p)) \o digits
                ELSE <<digits[1]>>
                         \o (IF k > 1 THEN <<".">> \o SubSeq(digits, 2, k) ELSE <<>>)
                         \o <<"e", IF p - 1 < 0 THEN "-" ELSE "+">>
                         \o NatToChars(Abs(p - 1))))))

\* `${input}` of a number
NumberTemplate(input) ==
    CASE input.k = "FIN" -> NumberToString(input.n, input.e)
      [] input.k = "NAN" -> <<"N", "a", "N">>
      [] input.k = "INF" ->
            (IF input.n < 0 THEN <<"-">> ELSE <<>>)
                \o <<"I", "n", "f", "i", "n", "i", "t", "y">>

encodeNumber(input) ==
    IF input.k = "FIN"
    THEN NumberTemplate(input)
    ELSE ToUpperCase(NumberTemplate(input))

\* `${input}`.toUpperCase() of undefined (made null first), null, true, false
encodeKeyword(input) ==
    CASE input.k \in {"null", "undefined"} -> <<"N", "U", "L", "L">>
      [] input.k = "true" -> <<"T", "R", "U", "E">>
      [] input.k = "false" -> <<"F", "A", "L", "S", "E">>

IsKeyChar(c) == IsLetter(c) \/ IsDigit(c) \/ c \in {"_", "-"}

NotKeyChar(c) == ~IsKeyChar(c)

KeyCharsAllowed ==
    <<"(only letters, digits, ", "LAQUO", "NNBSP", "_", "NNBSP", "RAQUO", " and ",
      "LAQUO", "NNBSP", "-", "NNBSP", "RAQUO", " allowed)">>

\* key.trim().search(/[^a-z0-9_-]/i), plus one (lines 544-545): the place
\* of the first invalid character of the trimmed key, 0 when it has none
KeySearch(key) == FirstIndex(Trim(key), NotKeyChar)

\* checkKey: the trimmed key, or the error naming its first invalid character
checkKey(key) ==
    Let(Trim(key), LAMBDA trimmed :
    Let(KeySearch(key), LAMBDA invalid :
        IF invalid > 0
        THEN Fail(<<"invalid character ">>
                      \o repr(<<trimmed[invalid]>>, ReprDefaultLength)
                      \o <<" in key ">> \o repr(trimmed, ReprDefaultLength)
                      \o <<" ">> \o KeyCharsAllowed)
        ELSE Ok(trimmed)))

WrapWidth == 80

Indent == <<" ", " ", " ", " ">>

\* encodeArray, from the rendered elements on (lines 522-534)
RenderArray(parts, level) ==
    Let(Len(Flat(parts)) + 2 * Len(parts), LAMBDA length :
        IF length = 0 THEN <<"[", "]">>
        ELSE IF level = 1 /\ length > WrapWidth
        THEN <<"[", "\n">>
                 \o Flat([i \in DOMAIN parts |-> Indent \o parts[i] \o <<",", "\n">>])
                 \o <<"]">>
        ELSE <<"[">>
                 \o Flat([i \in DOMAIN parts |->
                             parts[i] \o (IF i < Len(parts) THEN <<",", " ">> ELSE <<>>)])
                 \o <<"]">>)

\* encodeMap at level 2 and above, from the rendered entries on (lines 596-610);
\* an entry is <<key, value text>>
RenderInlineMap(parts, level) ==
    Let(Len(Flat([i \in DOMAIN parts |-> parts[i][1] \o parts[i][2]]))
            + 5 * Len(parts), LAMBDA length :
        IF length = 0 THEN <<"{", "}">>
        ELSE IF level = 2 /\ length > WrapWidth
        THEN <<"{", "\n">>
                 \o Flat([i \in DOMAIN parts |->
                             Indent \o parts[i][1] \o <<" ", "=", " ">> \o parts[i][2]
                                 \o <<",", "\n">>])
                 \o <<"}">>
        ELSE <<"{", " ">>
                 \o Flat([i \in DOMAIN parts |->
                             parts[i][1] \o <<" ", "=", " ">> \o parts[i][2]
                                 \o (IF i < Len(parts) THEN <<",", " ">> ELSE <<>>)])
                 \o <<" ", "}">>)

\* encodeMap at level 1, from the rendered entries on (lines 585-588)
RenderSectionBody(parts) ==
    Flat([i \in DOMAIN parts |->
             parts[i][1] \o <<" ", "=", " ">> \o parts[i][2]
                 \o (IF i < Len(parts) THEN <<"\n">> ELSE <<>>)])

\* encodeMap at level 0, from the rendered entries on (lines 570-579); an
\* entry is <<key, value text, value type>>
RenderRoot(parts) ==
    Flat([i \in DOMAIN parts |->
             (IF parts[i][3] = "MAP"
              THEN (IF i > 1 THEN <<"\n">> ELSE <<>>)
                       \o <<"[">> \o parts[i][1] \o <<"]">>
                       \o (IF parts[i][2] # <<>>
                           THEN <<"\n">> \o parts[i][2] \o <<"\n">>
                           ELSE <<"\n">>)
              ELSE parts[i][1] \o <<" ", "=", " ">> \o parts[i][2] \o <<"\n">>)])

\* nothing is popped
PopNothing(text) == text

\* the last fragment of the last entry, a line break, is popped (line 578)
PopLast(text) == IF text = <<>> THEN text ELSE SubSeq(text, 1, Len(text) - 1)

\* the entries in the order of insertion, not grouped
GroupEntriesAsInserted(entries) == entries

\* groupedInput (lines 560-565): the entries that are not tables, then the tables
GroupEntries(entries) ==
    SelectSeq(entries, LAMBDA en : getValueType(EntryValue(en)) # "MAP")
        \o SelectSeq(entries, LAMBDA en : getValueType(EntryValue(en)) = "MAP")

(***************************************************************************)
(* The calendar of the host's Date object (proleptic Gregorian)            *)
(***************************************************************************)

\* the host's local time zone, in minutes east of UTC: what
\* -Date.prototype.getTimezoneOffset() returns; fixed for a run
VARIABLES tz

\* the day number of the civil date year-month-day (month 1..12)
DaysFromCivil(year, month, day) ==
    Let(IF month <= 2 THEN year - 1 ELSE year, LAMBDA y :
    Let(y \div 400, LAMBDA era :
    Let(y - era * 400, LAMBDA yoe :
    Let(IF month > 2 THEN month - 3 ELSE month + 9, LAMBDA mp :
    Let((153 * mp + 2) \div 5 + day - 1, LAMBDA doy :
    Let(yoe * 365 + yoe \div 4 - yoe \div 100 + doy, LAMBDA doe :
        era * 146097 + doe - 719468))))))

\* the civil date <<year, month, day>> of a day number
CivilFromDays(days) ==
    Let(days + 719468, LAMBDA z :
    Let(z \div 146097, LAMBDA era :
    Let(z - era * 146097, LAMBDA doe :
    Let((doe - doe \div 1460 + doe \div 36524 - doe \div 146096) \div 365, LAMBDA yoe :
    Let(doe - (365 * yoe + yoe \div 4 - yoe \div 100), LAMBDA doy :
    Let((5 * doy + 2) \div 153, LAMBDA mp :
    Let(doy - (153 * mp + 2) \div 5 + 1, LAMBDA day :
    Let(IF mp < 10 THEN mp + 3 ELSE mp - 9, LAMBDA month :
        <<yoe + era * 400 + (IF month <= 2 THEN 1 ELSE 0), month, day>>))))))))

\* Date.UTC(year, month, day, h, min, s, ms), month counted from 0 and any
\* field allowed to overflow into the next; a year 0..99 means 1900 + year
DateUTC(year, month, day, h, min, s, ms) ==
    Let(IF 0 <= year /\ year <= 99 THEN 1900 + year ELSE year, LAMBDA fullYear :
        Date(DaysFromCivil(fullYear + (month \div 12), (month % 12) + 1, 1) + day - 1,
             ((h * 60 + min) * 60 + s) * 1000 + ms))

\* Date.prototype.setTime(getTime() + delta), delta in milliseconds
DateShift(date, delta) == Date(date.n, date.e + delta)

\* new Date(year, month, day, h, min, s, ms): the fields are local time
DateLocal(year, month, day, h, min, s, ms) ==
    DateShift(DateUTC(year, month, day, h, min, s, ms), Neg(tz) * 60000)

encodeDate(input) ==
    Let(CivilFromDays(input.n), LAMBDA civil :
    Let(IntToChars(civil[1]), LAMBDA year :
    Let(PadStart(NatToChars(civil[2]), 2, "0"), LAMBDA month :
    Let(PadStart(NatToChars(civil[3]), 2, "0"), LAMBDA day :
    Let(PadStart(NatToChars(input.e \div 3600000), 2, "0"), LAMBDA h :
    Let(PadStart(NatToChars((input.e \div 60000) % 60), 2, "0"), LAMBDA min :
    Let(PadStart(NatToChars((input.e \div 1000) % 60), 2, "0"), LAMBDA s :
    Let(PadStart(NatToChars(input.e % 1000), 3, "0"), LAMBDA ms :
    Let(year \o <<"-">> \o month \o <<"-">> \o day, LAMBDA localDate :
    Let(IF ms = <<"0", "0", "0">>
        THEN h \o <<":">> \o min \o <<":">> \o s
        ELSE h \o <<":">> \o min \o <<":">> \o s \o <<".">> \o ms, LAMBDA localTime :
    Let(PadStart(NatToChars(Abs(tz) \div 60), 2, "0"), LAMBDA hOffset :
    Let(IF tz >= 0 THEN "+" ELSE "-", LAMBDA offsetSign :
    Let(PadStart(NatToChars(Abs(tz) % 60), 2, "0"), LAMBDA minOffset :
    Let(IF minOffset = <<"0", "0">>
        THEN <<offsetSign>> \o (IF hOffset[1] = "0" THEN <<hOffset[2]>> ELSE hOffset)
        ELSE <<offsetSign>> \o hOffset \o <<":">> \o minOffset, LAMBDA offset :
        localDate \o <<" ">> \o localTime \o <<" ", "U", "T", "C">> \o offset
    ))))))))))))))

(***************************************************************************)
(* The encoder proper, on values held by structure (a tree): no value is   *)
(* its own descendant, so `references` never holds the value at hand.  The *)
(* bookkeeping of `references` is in the stepwise encoder further down.    *)
(***************************************************************************)

RECURSIVE encodeValue(_, _, _)
RECURSIVE encodeArray(_, _)
RECURSIVE encodeMap(_, _)
RECURSIVE EncodeItems(_, _)
RECURSIVE EncodeEntries(_, _, _)

\* Array.from(input, entry => encodeValue(entry, ..., level)[1]): the
\* rendered elements in `list`, or the first error thrown
EncodeItems(items, level) ==
    IF items = <<>> THEN [ok |-> TRUE, list |-> <<>>, msg |-> <<>>]
    ELSE Let(encodeValue(Head(items), level, TRUE), LAMBDA value :
             IF ~value.ok THEN [ok |-> FALSE, list |-> <<>>, msg |-> value.msg]
             ELSE Let(EncodeItems(Tail(items), level), LAMBDA rest :
                      IF ~rest.ok THEN rest
                      ELSE [rest EXCEPT !.list = <<value.text>> \o @]))

\* Array.from(entries, ...) of encodeMap: per entry checkKey and then
\* encodeValue; `list` holds <<key, value text, value type>> per entry
EncodeEntries(entries, level, levelUpIfNotMap) ==
    IF entries = <<>> THEN [ok |-> TRUE, list |-> <<>>, msg |-> <<>>]
    ELSE Let(checkKey(EntryKey(Head(entries))), LAMBDA key :
             IF ~key.ok THEN [ok |-> FALSE, list |-> <<>>, msg |-> key.msg]
             ELSE
         Let(encodeValue(EntryValue(Head(entries)), level, levelUpIfNotMap),
             LAMBDA value :
             IF ~value.ok THEN [ok |-> FALSE, list |-> <<>>, msg |-> value.msg]
             ELSE
         Let(EncodeEntries(Tail(entries), level, levelUpIfNotMap), LAMBDA rest :
             IF ~rest.ok THEN rest
             ELSE [rest EXCEPT !.list =
                       <<<<key.text, value.text,
                           getValueType(EntryValue(Head(entries)))>>>> \o @])))

encodeValue(input, level, levelUpIfNotMap) ==
    LET type == getValueType(input)
    IN  CASE type = "STRING" -> Ok(encodeString(input))
          [] type = "NUMBER" -> Ok(encodeNumber(input))
          [] type = "DATE" -> Ok(encodeDate(input))
          [] type = "KEYWORD" -> Ok(encodeKeyword(input))
          [] type = "ARRAY" ->
                encodeArray(input, level + (IF levelUpIfNotMap THEN 1 ELSE 0))
          [] type = "MAP" -> encodeMap(input, level + 1)

encodeArray(input, level) ==
    Let(EncodeItems(input.items, level), LAMBDA result :
        IF ~result.ok THEN Fail(result.msg)
        ELSE Ok(RenderArray(result.list, level)))

\* encodeMap (lines 555-614): at level 0 the grouped entries, encodeValue
\* with levelUpIfNotMap left at its default (line 570); at level 1
\* levelUpIfNotMap is false (line 584); deeper it is the default (line 593)
encodeMap(input, level) ==
    Let(EncodeEntries(IF level = 0 THEN GroupEntries(input.items) ELSE input.items,
                      level, level # 1), LAMBDA result :
        IF ~result.ok THEN Fail(result.msg)
        ELSE IF level = 0 THEN Ok(PopLast(RenderRoot(result.list)))
        ELSE IF level = 1 THEN Ok(RenderSectionBody(result.list))
        ELSE Ok(RenderInlineMap(result.list, level)))

encode(input) == encodeMap(input, 0)

(***************************************************************************)
(* The tokenizer.  `characters` is the text txt and the number p of calls  *)
(* of characters.next() made so far, which stops at Len(txt) + 1: the call *)
(* that found the input exhausted.  A parser's result carries the value    *)
(* (val) or text (str) matched, the delimiter that ended it (end), the     *)
(* token class (type) and the new p (pos); a thrown ConfigError carries    *)
(* its message and, when checkMatch threw it, the classes that were        *)
(* expected, the class found and the text reached.                         *)
(***************************************************************************)

NoVal == Keyword("undefined")

Res(val, str, end, type, pos) ==
    [ok |-> TRUE, val |-> val, str |-> str, end |-> end, type |-> type,
     pos |-> pos, msg |-> <<>>, expected |-> <<>>, found |-> "", reached |-> <<>>]

Err(msg, pos) ==
    [ok |-> FALSE, val |-> NoVal, str |-> <<>>, end |-> "", type |-> "ERROR",
     pos |-> pos, msg |-> msg, expected |-> <<>>, found |-> "", reached |-> <<>>]

HasNext(txt, p) == p < Len(txt)

\* the position after one more characters.next()
Advance(txt, p) == IF p < Len(txt) THEN p + 1 ELSE Len(txt) + 1

\* the character that call yields ("" when it reports done)
NextChar(txt, p) == IF p < Len(txt) THEN txt[p + 1] ELSE ""

\* the character the loop of matchUntil handles at place i, when it starts
\* at place p with `character` in hand
ScanChar(txt, p, character, i) == IF i = p THEN character ELSE txt[i]

\* no character is ever escaped
NeverEscaped(txt, p, character, i) == FALSE

\* isEscaped when the loop handles place i: the character before it was a
\* backslash that was not itself escaped (lines 144-148), which is to say
\* that an odd number of backslashes stands between p and i, next to i
IsEscapedAt(txt, p, character, i) ==
    /\ i > p
    /\ ScanChar(txt, p, character, i - 1) = "\\"
    /\ Cardinality({m \in 1..(i - p) :
           \A j \in (i - m)..(i - 1) : ScanChar(txt, p, character, j) = "\\"}) % 2 = 1

\* the characters of the places p..(stop - 1) that the loop adds to result:
\* all but the backslashes that escape
ScanResult(txt, p, character, stop) ==
    Let({i \in p..(stop - 1) : \/ IsEscapedAt(txt, p, character, i)
                               \/ ScanChar(txt, p, character, i) # "\\"}, LAMBDA kept :
        IF kept = p..(stop - 1)
        THEN [k \in 1..(stop - p) |-> ScanChar(txt, p, character, p + k - 1)]
        ELSE [k \in 1..Cardinality(kept) |->
                 ScanChar(txt, p, character,
                          CHOOSE i \in kept : Cardinality({j \in kept : j < i}) = k - 1)])

\* the while loop of matchUntil (lines 142-156), `character` in hand: it
\* stops at the first delimiter that is not escaped, or at the end of input
MatchUntilLoop(txt, p, done, character, delimiters) ==
    IF done THEN [found |-> FALSE, str |-> <<>>, end |-> "", pos |-> p]
    ELSE Let({i \in p..Len(txt) : /\ Includes(delimiters, ScanChar(txt, p, character, i))
                                  /\ ~IsEscapedAt(txt, p, character, i)}, LAMBDA stops :
         Let(IF stops = {} THEN Len(txt) + 1
             ELSE CHOOSE i \in stops : \A j \in stops : i <= j, LAMBDA stop :
             [found |-> stops # {},
              str |-> ScanResult(txt, p, character, stop),
              end |-> IF stops = {} THEN "" ELSE ScanChar(txt, p, character, stop),
              pos |-> stop]))

\* matchUntil(characters, delimiters, {endOfInput, start}); start = "" when
\* the caller passes none (or an empty one)
matchUntil(txt, p, delimiters, endOfInput, start) ==
    Let(IF start # ""
        THEN MatchUntilLoop(txt, p, FALSE, start, delimiters)
        ELSE MatchUntilLoop(txt, Advance(txt, p), ~HasNext(txt, p),
                            NextChar(txt, p), delimiters), LAMBDA m :
        IF m.found THEN Res(NoVal, m.str, m.end, "", m.pos)
        ELSE IF ~endOfInput
        THEN Err(IF Len(delimiters) = 1
                 THEN <<"delimiter ">> \o repr(delimiters, ReprDefaultLength)
                          \o <<" expected but end of input reached">>
                 ELSE <<"delimiter expected but end of input reached">>,
                 m.pos)
        ELSE Res(NoVal, m.str, "", "", m.pos))

\* a token class as a message names it: replace(/_/g, " ").toLowerCase()
ClassText(type) ==
    CASE type = "KEY" -> "key"
      [] type = "VALUE" -> "value"
      [] type = "LIST_DIVIDER" -> "list divider"
      [] type = "LIST_DELIMITER" -> "list delimiter"
      [] type = "NEW_LINE" -> "new line"
      [] type = "END_OF_INPUT" -> "end of input"
      [] type = "UNKNOWN" -> "unknown"

ExpectedTextFirstOnly(expected) == <<ClassText(expected[1])>>

\* the expected classes joined as "a, b or c" (lines 170-173)
ExpectedText(expected) ==
    IF Len(expected) > 1
    THEN Flat([i \in 1..(Len(expected) - 1) |->
                  <<ClassText(expected[i])>>
                      \o (IF i < Len(expected) - 1 THEN <<", ">> ELSE <<>>)])
             \o <<" or ", ClassText(expected[Len(expected)])>>
    ELSE <<ClassText(expected[1])>>

CommentOrLineEnd == <<"#", "\n">>

ReachedLength == 20

\* the text from `character` to the end of its line, trimmed: what the
\* error messages quote as reached
Reached(txt, p, character) ==
    Let(matchUntil(txt, p, CommentOrLineEnd, TRUE, character), LAMBDA m :
        [str |-> Trim(m.str), pos |-> m.pos])

checkMatch(expected, txt, p, character, type) ==
    IF Includes(expected, type) THEN Res(NoVal, <<>>, "", type, p)
    ELSE Let(Reached(txt, p, character), LAMBDA reached :
         Let(IF ClassText(type) = "unknown"
             THEN repr(reached.str, ReachedLength) \o <<" reached">>
             ELSE IF reached.str = <<>>
             THEN <<ClassText(type), " reached">>
             ELSE <<ClassText(type), " ">> \o repr(reached.str, ReachedLength)
                      \o <<" reached">>, LAMBDA message :
             [Err(ExpectedText(expected) \o <<" expected but ">> \o message,
                  reached.pos)
                 EXCEPT !.expected = expected, !.found = type,
                        !.reached = reached.str]))

(***************************************************************************)
(* Number and date literals                                                *)
(***************************************************************************)

RECURSIVE DigitsToNat(_, _, _)
\* the value of the digits s in the given base, after the value acc
DigitsToNat(s, base, acc) ==
    IF s = <<>> THEN acc
    ELSE DigitsToNat(Tail(s), base, acc * base + DigitValue(Head(s)))

HexLetters == <<"a", "b", "c", "d", "e", "f">>

HexValue(c) ==
    IF IsDigit(c) THEN DigitValue(c) ELSE 9 + IndexIn(HexLetters, ToLowerChar(c))

IsHexDigit(c) == IsDigit(c) \/ Includes(HexLetters, ToLowerChar(c))

RECURSIVE HexToNat(_, _)
HexToNat(s, acc) ==
    IF s = <<>> THEN acc ELSE HexToNat(Tail(s), acc * 16 + HexValue(Head(s)))

AllDigits(s) == \A i \in DOMAIN s : IsDigit(s[i])

\* the length of the run of digits of s that starts at index i
RECURSIVE DigitRun(_, _)
DigitRun(s, i) ==
    IF i <= Len(s) /\ IsDigit(s[i]) THEN 1 + DigitRun(s, i + 1) ELSE 0

NotANumber == [ok |-> FALSE, n |-> 0, e |-> 0]

\* Number(raw) on a decimal literal: digits [. digits] [(e|E) [+|-] digits]
\* with a digit before or after the point
DecimalToNumber(s) ==
    Let(DigitRun(s, 1), LAMBDA intLen :
    Let(intLen < Len(s) /\ s[intLen + 1] = ".", LAMBDA hasPoint :
    Let(IF hasPoint THEN DigitRun(s, intLen + 2) ELSE 0, LAMBDA fracLen :
    Let(intLen + (IF hasPoint THEN 1 + fracLen ELSE 0), LAMBDA mantissaEnd :
    Let(SubSeq(s, 1, intLen) \o SubSeq(s, intLen + 2, intLen + 1 + fracLen),
        LAMBDA digits :
    Let(mantissaEnd < Len(s) /\ s[mantissaEnd + 1] \in {"e", "E"}, LAMBDA hasExp :
    Let(hasExp /\ mantissaEnd + 1 < Len(s) /\ s[mantissaEnd + 2] \in {"+", "-"},
        LAMBDA hasSign :
    Let(mantissaEnd + (IF hasSign THEN 3 ELSE 2), LAMBDA expStart :
    Let(IF hasExp THEN DigitRun(s, expStart) ELSE 0, LAMBDA expLen :
    Let(DigitsToNat(SubSeq(s, expStart, expStart + expLen - 1), 10, 0), LAMBDA exp :
    Let(IF hasSign /\ s[mantissaEnd + 2] = "-" THEN Neg(exp) ELSE exp,
        LAMBDA signedExp :
        IF intLen + fracLen = 0 THEN NotANumber
        ELSE IF hasExp /\ (expLen = 0 \/ expStart + expLen - 1 # Len(s))
        THEN NotANumber
        ELSE IF ~hasExp /\ mantissaEnd # Len(s) THEN NotANumber
        ELSE [ok |-> TRUE, n |-> DigitsToNat(digits, 10, 0),
              e |-> (IF hasExp THEN signedExp ELSE 0) - fracLen]
    )))))))))))

\* Number(raw): white space is trimmed, the empty string is 0, then a
\* decimal literal or a 0x / 0o / 0b integer; anything else is NaN
StringToNumber(raw) ==
    Let(Trim(raw), LAMBDA s :
    Let(IF Len(s) > 2 /\ s[1] = "0" THEN ToLowerChar(s[2]) ELSE "", LAMBDA prefix :
    Let(SubSeq(s, 3, Len(s)), LAMBDA rest :
        IF s = <<>> THEN [ok |-> TRUE, n |-> 0, e |-> 0]
        ELSE IF prefix = "x"
        THEN IF \A i \in DOMAIN rest : IsHexDigit(rest[i])
             THEN [ok |-> TRUE, n |-> HexToNat(rest, 0), e |-> 0] ELSE NotANumber
        ELSE IF prefix = "o"
        THEN IF \A i \in DOMAIN rest : IsDigit(rest[i]) /\ DigitValue(rest[i]) < 8
             THEN [ok |-> TRUE, n |-> DigitsToNat(rest, 8, 0), e |-> 0] ELSE NotANumber
        ELSE IF prefix = "b"
        THEN IF \A i \in DOMAIN rest : rest[i] \in {"0", "1"}
             THEN [ok |-> TRUE, n |-> DigitsToNat(rest, 2, 0), e |-> 0] ELSE NotANumber
        ELSE DecimalToNumber(s))))

\* raw.replace(/<sep>(\d{3})/g, "$1"): a separator followed by three digits
\* is dropped, scanning from the left
RECURSIVE DropSeparators(_, _)
DropSeparators(s, sep) ==
    IF s = <<>> THEN <<>>
    ELSE IF Head(s) = sep /\ DigitRun(s, 2) >= 3
    THEN SubSeq(s, 2, 4) \o DropSeparators(SubSeq(s, 5, Len(s)), sep)
    ELSE <<Head(s)>> \o DropSeparators(Tail(s), sep)

\* /[-+:/utc]/i
IsDateChar(c) == c \in {"-", "+", ":", "/", "u", "t", "c", "U", "T", "C"}

\* the index of the first character of s at or after i that is not a space
RECURSIVE SkipSpaces(_, _)
SkipSpaces(s, i) ==
    IF i <= Len(s) /\ s[i] = " " THEN SkipSpaces(s, i + 1) ELSE i

DigitsAt(s, i, n) == i + n - 1 <= Len(s) /\ \A j \in i..(i + n - 1) : IsDigit(s[j])

CharAt(s, i) == IF i >= 1 /\ i <= Len(s) THEN s[i] ELSE ""

NatAt(s, i, n) == DigitsToNat(SubSeq(s, i, i + n - 1), 10, 0)

\* the match of matchDate's regular expression (lines 284-289) against raw:
\* whether it matches and the groups the code reads: the date's fields, the
\* time (has, h, min, s), the fraction's digits, the offset (has, sign,
\* hours, minutes)
DateMatch(raw) ==
    Let(CharAt(raw, 5), LAMBDA sep :
    Let(DigitsAt(raw, 1, 4) /\ sep \in {"-", "/"} /\ DigitsAt(raw, 6, 2)
            /\ CharAt(raw, 8) = sep /\ DigitsAt(raw, 9, 2), LAMBDA dateOk :
    Let(CharAt(raw, 11) \in {"T", "t"}, LAMBDA hasT :
    Let(IF hasT THEN 12 ELSE SkipSpaces(raw, 11), LAMBDA timeAt :
    Let(DigitsAt(raw, timeAt, 2) /\ CharAt(raw, timeAt + 2) = ":"
            /\ DigitsAt(raw, timeAt + 3, 2), LAMBDA hasTime :
    Let(hasTime /\ CharAt(raw, timeAt + 5) = ":" /\ DigitsAt(raw, timeAt + 6, 2),
        LAMBDA hasSec :
    Let(IF hasSec /\ CharAt(raw, timeAt + 8) = "."
        THEN DigitRun(raw, timeAt + 9) ELSE 0, LAMBDA fracLen :
    Let(IF ~hasTime THEN timeAt
        ELSE IF ~hasSec THEN timeAt + 5
        ELSE IF fracLen = 0 THEN timeAt + 8
        ELSE timeAt + 9 + fracLen, LAMBDA timeEnd :
    Let(SkipSpaces(raw, timeEnd), LAMBDA utcAt :
    Let(utcAt + 2 <= Len(raw)
            /\ ToUpperCase(SubSeq(raw, utcAt, utcAt + 2)) = <<"U", "T", "C">>,
        LAMBDA hasUtc :
    Let(SkipSpaces(raw, IF hasUtc THEN utcAt + 3 ELSE utcAt), LAMBDA signAt :
    Let(CharAt(raw, signAt) \in {"+", "-"}, LAMBDA hasOffset :
    Let(SkipSpaces(raw, signAt + 1), LAMBDA offAt :
    Let(DigitsAt(raw, offAt, 2) /\ CharAt(raw, offAt + 2) = ":"
            /\ DigitsAt(raw, offAt + 3, 2) /\ offAt + 4 = Len(raw), LAMBDA offLong :
    Let((DigitsAt(raw, offAt, 1) /\ offAt = Len(raw))
            \/ (DigitsAt(raw, offAt, 2) /\ offAt + 1 = Len(raw)), LAMBDA offShort :
        IF ~dateOk THEN [ok |-> FALSE]
        ELSE IF hasOffset /\ ~(offLong \/ offShort) THEN [ok |-> FALSE]
        ELSE IF ~hasOffset /\ signAt # Len(raw) + 1 THEN [ok |-> FALSE]
        ELSE [ok |-> TRUE,
              year |-> NatAt(raw, 1, 4), month |-> NatAt(raw, 6, 2),
              day |-> NatAt(raw, 9, 2),
              hasTime |-> hasTime,
              h |-> IF hasTime THEN NatAt(raw, timeAt, 2) ELSE 0,
              min |-> IF hasTime THEN NatAt(raw, timeAt + 3, 2) ELSE 0,
              s |-> IF hasSec THEN NatAt(raw, timeAt + 6, 2) ELSE 0,
              fractional |-> SubSeq(raw, timeAt + 9, timeAt + 8 + fracLen),
              hasOffset |-> hasOffset,
              offsetSign |-> CharAt(raw, signAt),
              hOffset |-> IF offLong THEN NatAt(raw, offAt, 2)
                          ELSE NatAt(raw, offAt, Len(raw) - offAt + 1),
              minOffset |-> IF offLong THEN NatAt(raw, offAt + 3, 2) ELSE 0]
    )))))))))))))))

\* Number(`0${fractional}`) * 1000 as the Date constructor takes it: the
\* integer part, that is the first three digits of the fraction
FractionToMs(fractional) ==
    NatAt(SubSeq(fractional \o <<"0", "0", "0">>, 1, 3), 1, 3)

\* s > 60 where s is Number("SS.fraction")
SecondsOver60(m) ==
    m.s > 60 \/ (m.s = 60 /\ \E i \in DOMAIN m.fractional : m.fractional[i] # "0")

matchDate(raw, end, p) ==
    Let(DateMatch(raw), LAMBDA m :
    Let(Err(<<"date ">> \o repr(raw, ReprDefaultLength) \o <<" invalid">>, p),
        LAMBDA invalid :
        IF ~m.ok THEN invalid
        ELSE IF m.month > 12 \/ m.day > 31 \/ m.h > 24 \/ m.min > 60 \/ SecondsOver60(m)
        THEN invalid
        ELSE
    Let(FractionToMs(m.fractional), LAMBDA ms :
    Let((m.hOffset * 60 + m.minOffset) * 60 * 1000, LAMBDA msOffset :
        IF m.hasOffset
        THEN Res(DateShift(DateUTC(m.year, m.month - 1, m.day, m.h, m.min, m.s, ms),
                           IF m.offsetSign = "-" THEN msOffset ELSE Neg(msOffset)),
                 <<>>, end, "VALUE", p)
        ELSE Res(DateLocal(m.year, m.month - 1, m.day, m.h, m.min, m.s, ms),
                 <<>>, end, "VALUE", p)))))

IsNaNWord(raw) ==
    ToUpperCase(raw) \in {<<"N", "A">>, <<"N", "A", "N">>, <<"N", "/", "A">>}

IsInfWord(raw) ==
    ToUpperCase(raw) \in {<<"I", "N", "F">>, <<"I", "N", "F", "I", "N", "I", "T", "Y">>}

matchNumber(txt, p, start) ==
    Let(matchUntil(txt, p, DELIMITERS, TRUE, ""), LAMBDA m :
    Let(IF start = "-" THEN -1 ELSE 1, LAMBDA sign :
    Let(Trim((IF start \in {"-", "+"} THEN <<>> ELSE <<start>>) \o m.str), LAMBDA raw :
        IF \E i \in DOMAIN raw : IsDateChar(raw[i]) THEN matchDate(raw, m.end, m.pos)
        ELSE
    Let(DropSeparators(DropSeparators(raw, "_"), " "), LAMBDA plain :
        IF IsNaNWord(plain) THEN Res(NaN, <<>>, m.end, "VALUE", m.pos)
        ELSE IF IsInfWord(plain) THEN Res(Inf(sign), <<>>, m.end, "VALUE", m.pos)
        ELSE
    Let(StringToNumber(plain), LAMBDA number :
        IF ~number.ok
        THEN Err(<<"number ">> \o repr(plain, ReprDefaultLength) \o <<" invalid">>, m.pos)
        ELSE Res(Dec(sign * number.n, number.e), <<>>, m.end, "VALUE", m.pos))))))

(***************************************************************************)
(* The grammar parsers                                                     *)
(***************************************************************************)

BracketOnlyAtFirstLevel == "(repr([...]) syntax only at first level)"

\* a matchKey that reads nothing: it reports a header and leaves the
\* generator where the caller had it before the key's first character
KeyReadsNothing(txt, p, start, level) == Res(NoVal, <<start>>, "]", "KEY", p - 1)

matchKey(txt, p, start, level) ==
    Let(matchUntil(txt, p, DELIMITERS, TRUE, ""), LAMBDA m :
    Let(<<start>> \o Trim(m.str) \o (IF m.end = "" THEN <<>> ELSE <<m.end>>),
        LAMBDA bracketKey :
    Let(Reached(txt, m.pos, m.end), LAMBDA reached :
    Let(IF start = "[" THEN m.str ELSE Trim(<<start>> \o m.str), LAMBDA key :
        IF start = "[" /\ level # "FIRST_LEVEL"
        THEN Err(<<"key ">> \o repr(bracketKey, ReprDefaultLength)
                     \o <<" invalid ", BracketOnlyAtFirstLevel>>, m.pos)
        ELSE IF start = "[" /\ m.end # "]"
        THEN Err(<<"key ">> \o repr(bracketKey, ReprDefaultLength) \o <<" invalid (">>
                     \o repr(<<"]">>, ReprDefaultLength) \o <<" expected but ">>
                     \o repr(reached.str, ReachedLength) \o <<" reached">>,
                 reached.pos)
        ELSE IF key = <<>>
        THEN Err(<<"key ">>
                     \o repr((IF start = "[" THEN <<start>> ELSE <<>>)
                                 \o (IF m.end = "" THEN <<>> ELSE <<m.end>>),
                             ReprDefaultLength)
                     \o <<" invalid (blank)">>, m.pos)
        ELSE Res(NoVal, key, m.end, "KEY", m.pos)))))

matchString(txt, p, delimiter) ==
    Let(matchUntil(txt, p, <<delimiter>>, FALSE, ""), LAMBDA m :
        IF ~m.ok THEN m ELSE Res(Str(m.str), <<>>, "", "VALUE", m.pos))

matchKeyword(txt, p, start) ==
    Let(matchUntil(txt, p, DELIMITERS, TRUE, ""), LAMBDA m :
    Let(Trim(<<start>> \o m.str), LAMBDA raw :
    Let(ToUpperCase(raw), LAMBDA word :
        CASE word = <<"T", "R", "U", "E">> ->
                Res(Keyword("true"), <<>>, m.end, "VALUE", m.pos)
          [] word = <<"F", "A", "L", "S", "E">> ->
                Res(Keyword("false"), <<>>, m.end, "VALUE", m.pos)
          [] word = <<"N", "U", "L", "L">> ->
                Res(Keyword("null"), <<>>, m.end, "VALUE", m.pos)
          [] IsInfWord(raw) -> Res(Inf(1), <<>>, m.end, "VALUE", m.pos)
          [] IsNaNWord(raw) -> Res(NaN, <<>>, m.end, "VALUE", m.pos)
          [] OTHER ->
                Err(<<"keyword ">> \o repr(raw, ReprDefaultLength) \o <<" invalid">>,
                    m.pos))))

RECURSIVE matchNext(_, _, _, _, _, _)
RECURSIVE MatchNextLoop(_, _, _, _, _, _, _)
RECURSIVE matchArray(_, _, _)
RECURSIVE MatchArrayLoop(_, _, _, _, _, _)
RECURSIVE matchMap(_, _)
RECURSIVE MatchMapLoop(_, _, _, _, _)

ArrayCloser(delimiter) == IF delimiter = "[" THEN "]" ELSE ")"

\* a divider is expected too
ExpectValueOrDividerInList == <<"VALUE", "LIST_DIVIDER", "LIST_DELIMITER", "NEW_LINE">>

ExpectValueInList == <<"VALUE", "LIST_DELIMITER", "NEW_LINE">>

ExpectDividerInList == <<"LIST_DIVIDER", "LIST_DELIMITER", "NEW_LINE">>

ExpectKeyInMap == <<"KEY", "LIST_DELIMITER", "NEW_LINE">>

ExpectKeyAtRoot == <<"KEY", "NEW_LINE", "END_OF_INPUT">>

\* every class of token: nothing is required of what follows a value
ExpectAnyToken ==
    <<"NEW_LINE", "END_OF_INPUT", "KEY", "VALUE", "LIST_DIVIDER", "LIST_DELIMITER",
      "UNKNOWN">>

ExpectLineEnd == <<"NEW_LINE", "END_OF_INPUT">>

\* the while loop of matchNext (lines 188-228), `start` in hand
MatchNextLoop(txt, p, done, start, expected, entryKey, newLine) ==
    IF done
    THEN Let(checkMatch(expected, txt, p, "", "END_OF_INPUT"), LAMBDA chk :
             IF ~chk.ok THEN chk ELSE Res(NoVal, <<>>, "", "END_OF_INPUT", p))
    ELSE IF start \in {"\n", "#"}
    THEN Let(checkMatch(expected, txt, p, start, "NEW_LINE"), LAMBDA chk :
         Let(IF start = "#" THEN matchUntil(txt, p, <<"\n">>, TRUE, "").pos ELSE p,
             LAMBDA q :
             IF ~chk.ok THEN chk
             ELSE IF newLine THEN Res(NoVal, <<>>, "\n", "NEW_LINE", q)
             ELSE MatchNextLoop(txt, Advance(txt, q), ~HasNext(txt, q),
                                NextChar(txt, q), expected, entryKey, newLine)))
    ELSE IF IsSpace(start)
    THEN MatchNextLoop(txt, Advance(txt, p), ~HasNext(txt, p), NextChar(txt, p),
                       expected, entryKey, newLine)
    ELSE Let(CASE start = "," -> "LIST_DIVIDER"
               [] start \in {"]", ")", "}"} -> "LIST_DELIMITER"
               [] entryKey # "" -> "KEY"
               [] start \in {"'", "\""} -> "VALUE"
               [] IsDigit(start) \/ start \in {".", "+", "-"} -> "VALUE"
               [] IsLetter(start) \/ start = "_" -> "VALUE"
               [] start \in {"[", "(", "{"} -> "VALUE"
               [] OTHER -> "UNKNOWN", LAMBDA type :
         Let(checkMatch(expected, txt, p, start, type), LAMBDA chk :
             IF ~chk.ok THEN chk
             ELSE IF type \in {"LIST_DIVIDER", "LIST_DELIMITER"}
             THEN Res(NoVal, <<>>, start, type, p)
             ELSE IF type = "KEY" THEN matchKey(txt, p, start, entryKey)
             ELSE IF start \in {"'", "\""} THEN matchString(txt, p, start)
             ELSE IF IsDigit(start) \/ start \in {".", "+", "-"}
             THEN matchNumber(txt, p, start)
             ELSE IF IsLetter(start) \/ start = "_" THEN matchKeyword(txt, p, start)
             ELSE IF start \in {"[", "("} THEN matchArray(txt, p, start)
             ELSE matchMap(txt, p)))

\* matchNext(characters, {expected, entryKey, start, newLine}); entryKey = ""
\* and start = "" when the caller passes none
matchNext(txt, p, expected, entryKey, start, newLine) ==
    IF start # ""
    THEN MatchNextLoop(txt, p, FALSE, start, expected, entryKey, newLine)
    ELSE MatchNextLoop(txt, Advance(txt, p), ~HasNext(txt, p), NextChar(txt, p),
                       expected, entryKey, newLine)

\* the while loop of matchArray (lines 328-346)
MatchArrayLoop(txt, p, delimiter, result, start, expected) ==
    Let(matchNext(txt, p, expected, "", start, FALSE), LAMBDA entry :
    Let(Reached(txt, entry.pos, entry.end), LAMBDA reached :
        IF ~entry.ok THEN entry
        ELSE IF entry.type = "VALUE"
        THEN MatchArrayLoop(txt, entry.pos, delimiter, Append(result, entry.val),
                            entry.end, ExpectDividerInList)
        ELSE IF entry.type = "LIST_DIVIDER"
        THEN MatchArrayLoop(txt, entry.pos, delimiter, result, "", ExpectValueInList)
        ELSE IF entry.end # delimiter
        THEN Err(<<"end of array ">> \o repr(<<delimiter>>, ReprDefaultLength)
                     \o <<" expected but ">> \o repr(reached.str, ReachedLength)
                     \o <<" reached">>, reached.pos)
        ELSE Res(Arr(result), <<>>, "", "VALUE", entry.pos)))

matchArray(txt, p, delimiter) ==
    MatchArrayLoop(txt, p, ArrayCloser(delimiter), <<>>, "", ExpectValueInList)

\* the error thrown when a key is not followed by "=" (lines 370-373, 398-402)
AssignmentExpected(txt, p, end) ==
    Let(Reached(txt, p, end), LAMBDA reached :
        Err(<<"assignment character ">> \o repr(<<"=">>, ReprDefaultLength)
                \o <<" expected but ">> \o repr(reached.str, ReachedLength)
                \o <<" reached">>, reached.pos))

\* the while loop of matchMap (lines 355-380)
MatchMapLoop(txt, p, result, start, expected) ==
    Let(matchNext(txt, p, expected, "HIGHER_LEVEL", start, FALSE), LAMBDA entryKey :
    Let(Reached(txt, entryKey.pos, entryKey.end), LAMBDA reached :
        IF ~entryKey.ok THEN entryKey
        ELSE IF entryKey.type = "LIST_DIVIDER"
        THEN MatchMapLoop(txt, entryKey.pos, result, "", ExpectKeyInMap)
        ELSE IF entryKey.type = "LIST_DELIMITER"
        THEN IF entryKey.end # "}"
             THEN Err(<<"end of map ">> \o repr(<<"}">>, ReprDefaultLength)
                          \o <<" expected but ">> \o repr(reached.str, ReachedLength)
                          \o <<" reached">>, reached.pos)
             ELSE Res(result, <<>>, "", "VALUE", entryKey.pos)
        ELSE IF entryKey.end # "="
        THEN AssignmentExpected(txt, entryKey.pos, entryKey.end)
        ELSE
    Let(matchNext(txt, entryKey.pos, <<"VALUE">>, "", "", FALSE), LAMBDA entryValue :
        IF ~entryValue.ok THEN entryValue
        ELSE MatchMapLoop(txt, entryValue.pos,
                          MapSet(result, entryKey.str, entryValue.val),
                          entryValue.end, ExpectDividerInList))))

matchMap(txt, p) == MatchMapLoop(txt, p, EmptyMap, "", ExpectKeyInMap)

\* the error as it was raised, the entry not named
NotAtEntry(error, key) == error

\* the message of an error raised while an entry's value is parsed, as
\* matchEntries raises it again (lines 412-416)
AtEntry(error, key) ==
    [error EXCEPT !.msg = @ \o <<" at entry ">> \o repr(key, ReprDefaultLength)]

TargetSetInRoot(result, inSection, section, key, value) ==
    MapSet(result, key, value)

\* target.set(key, value): the target is the root table until a section
\* header is read, and from then on the table of the latest header
TargetSet(result, inSection, section, key, value) ==
    IF inSection
    THEN MapSet(result, section, MapSet(MapGet(result, section), key, value))
    ELSE MapSet(result, key, value)

\* the state of matchEntries between two turns of its while loop: the
\* cursor, the root table, the target, what the last turn read (entryKey
\* and entryValue), and how the call ended if it did
EntriesState(p, result, inSection, section, status, error, last) ==
    [p |-> p, result |-> result, inSection |-> inSection, section |-> section,
     status |-> status, msg |-> error.msg, expected |-> error.expected,
     found |-> error.found, reached |-> error.reached, last |-> last]

Turn(kind, key, val) == [kind |-> kind, key |-> key, val |-> val]

EntriesStart ==
    EntriesState(0, EmptyMap, FALSE, <<>>, "run", Err(<<>>, 0),
                 Turn("none", <<>>, NoVal))

EntriesThrow(st, error, key) ==
    EntriesState(error.pos, st.result, st.inSection, st.section, "error", error,
                 Turn("error", key, NoVal))

\* one turn of the while loop of matchEntries (lines 389-419)
MatchEntriesStep(txt, st) ==
    Let(matchNext(txt, st.p, ExpectKeyAtRoot, "FIRST_LEVEL", "", FALSE),
        LAMBDA entryKey :
        IF ~entryKey.ok THEN EntriesThrow(st, entryKey, <<>>)
        ELSE IF entryKey.type = "END_OF_INPUT"
        THEN [st EXCEPT !.p = entryKey.pos, !.status = "done",
                        !.last = Turn("end", <<>>, NoVal)]
        ELSE IF entryKey.end = "]"
        THEN [st EXCEPT !.p = entryKey.pos,
                        !.result = MapSet(st.result, entryKey.str, EmptyMap),
                        !.inSection = TRUE, !.section = entryKey.str,
                        !.last = Turn("header", entryKey.str, NoVal)]
        ELSE IF entryKey.end # "="
        THEN EntriesThrow(st,
                 AtEntry(AssignmentExpected(txt, entryKey.pos, entryKey.end),
                         entryKey.str),
                 entryKey.str)
        ELSE
    Let(matchNext(txt, entryKey.pos, <<"VALUE">>, "", "", FALSE), LAMBDA entryValue :
        IF ~entryValue.ok
        THEN EntriesThrow(st, AtEntry(entryValue, entryKey.str), entryKey.str)
        ELSE
    Let(IF entryValue.end # "\n"
        THEN matchNext(txt, entryValue.pos, ExpectLineEnd, "", entryValue.end, TRUE)
        ELSE entryValue, LAMBDA lineEnd :
        IF ~lineEnd.ok
        THEN EntriesThrow(st, AtEntry(lineEnd, entryKey.str), entryKey.str)
        ELSE [st EXCEPT !.p = lineEnd.pos,
                        !.result = TargetSet(st.result, st.inSection, st.section,
                                             entryKey.str, entryValue.val),
                        !.last = Turn("entry", entryKey.str, entryValue.val)])))

RECURSIVE MatchEntriesLoop(_, _)
MatchEntriesLoop(txt, st) ==
    IF st.status # "run" THEN st ELSE MatchEntriesLoop(txt, MatchEntriesStep(txt, st))

\* matchEntries(characters): the state in which its loop ends
matchEntries(txt) == MatchEntriesLoop(txt, EntriesStart)

\* generateFrom of a string: its characters, one by one
generateFrom(value) == value

\* what a call of decode gives its caller: the document, or the error thrown
Outcome(st) ==
    [ok |-> st.status = "done",
     val |-> IF st.status = "done" THEN st.result ELSE NoVal,
     msg |-> st.msg]

\* decode of a string
decode(input) == Outcome(matchEntries(generateFrom(input)))

(***************************************************************************)
(* The character source adapter.  A chunk is text (a string) or bytes;     *)
(* bytes go through the host's TextDecoder("utf-8"), whose streaming       *)
(* decoder is modelled by the state it keeps between two calls.            *)
(***************************************************************************)

\* the code points of the characters the adapter's inputs are drawn from
CodePoints ==
    <<<<"\n", 10>>, <<" ", 32>>, <<"\"", 34>>, <<"1", 49>>, <<"2", 50>>,
      <<"=", 61>>, <<"[", 91>>, <<"]", 93>>, <<"a", 97>>, <<"b", 98>>,
      <<"E2", 233>>, <<"E3", 8364>>, <<"E4", 128512>>, <<"FFFD", 65533>>>>

CodePointOf(c) == CodePoints[CHOOSE i \in DOMAIN CodePoints : CodePoints[i][1] = c][2]

\* the character of a code point; "OTHER" stands for every character that
\* is not one of the model's
CharOf(cp) ==
    IF \E i \in DOMAIN CodePoints : CodePoints[i][2] = cp
    THEN CodePoints[CHOOSE i \in DOMAIN CodePoints : CodePoints[i][2] = cp][1]
    ELSE "OTHER"

\* the UTF-8 bytes of a code point
Utf8Bytes(cp) ==
    IF cp < 128 THEN <<cp>>
    ELSE IF cp < 2048 THEN <<192 + (cp \div 64), 128 + (cp % 64)>>
    ELSE IF cp < 65536
    THEN <<224 + (cp \div 4096), 128 + ((cp \div 64) % 64), 128 + (cp % 64)>>
    ELSE <<240 + (cp \div 262144), 128 + ((cp \div 4096) % 64),
           128 + ((cp \div 64) % 64), 128 + (cp % 64)>>

\* the UTF-8 encoding of a text
Utf8Encode(txt) == Flat([i \in DOMAIN txt |-> Utf8Bytes(CodePointOf(txt[i]))])

\* a TextDecoder between two calls of decode(chunk, {stream: true}): the
\* code point under construction, how many of its bytes are still needed,
\* and the range the next byte must lie in
DecoderState(codePoint, bytesNeeded, lower, upper) ==
    [codePoint |-> codePoint, bytesNeeded |-> bytesNeeded,
     lower |-> lower, upper |-> upper]

NewTextDecoder == DecoderState(0, 0, 128, 191)

\* the decoder's handling of a byte met while no sequence is under way:
\* its new state and the characters it emits
Utf8Lead(byte) ==
    IF byte <= 127 THEN [d |-> NewTextDecoder, out |-> <<CharOf(byte)>>]
    ELSE IF byte >= 194 /\ byte <= 223
    THEN [d |-> DecoderState(byte % 32, 1, 128, 191), out |-> <<>>]
    ELSE IF byte >= 224 /\ byte <= 239
    THEN [d |-> DecoderState(byte % 16, 2,
                             IF byte = 224 THEN 160 ELSE 128,
                             IF byte = 237 THEN 159 ELSE 191),
          out |-> <<>>]
    ELSE IF byte >= 240 /\ byte <= 244
    THEN [d |-> DecoderState(byte % 8, 3,
                             IF byte = 240 THEN 144 ELSE 128,
                             IF byte = 244 THEN 143 ELSE 191),
          out |-> <<>>]
    ELSE [d |-> NewTextDecoder, out |-> <<"FFFD">>]

\* the decoder's handling of one byte.  A byte that cannot continue the
\* sequence under way ends it with U+FFFD and is then read again.
Utf8Byte(d, byte) ==
    IF d.bytesNeeded = 0 THEN Utf8Lead(byte)
    ELSE IF byte < d.lower \/ byte > d.upper
    THEN [d |-> Utf8Lead(byte).d, out |-> <<"FFFD">> \o Utf8Lead(byte).out]
    ELSE IF d.bytesNeeded = 1
    THEN [d |-> NewTextDecoder, out |-> <<CharOf(d.codePoint * 64 + (byte % 64))>>]
    ELSE [d |-> DecoderState(d.codePoint * 64 + (byte % 64), d.bytesNeeded - 1,
                             128, 191),
          out |-> <<>>]

\* decoder.decode(bytes, {stream: true})
RECURSIVE Utf8Stream(_, _)
Utf8Stream(d, bytes) ==
    IF bytes = <<>> THEN [d |-> d, out |-> <<>>]
    ELSE Let(Utf8Byte(d, Head(bytes)), LAMBDA one :
         Let(Utf8Stream(one.d, Tail(bytes)), LAMBDA rest :
             [d |-> rest.d, out |-> one.out \o rest.out]))

\* decoder.decode(): the end of the stream; a sequence left unfinished
\* becomes U+FFFD
Utf8Flush(d) == IF d.bytesNeeded # 0 THEN <<"FFFD">> ELSE <<>>

\* decoder.decode(bytes) of a decoder just made: the whole input at once
Utf8Decode(bytes) ==
    Let(Utf8Stream(NewTextDecoder, bytes), LAMBDA r : r.out \o Utf8Flush(r.d))

TextChunk(data) == [kind |-> "text", data |-> data, bytes |-> <<>>]

ByteChunk(bytes) == [kind |-> "bytes", data |-> <<>>, bytes |-> bytes]

\* the generator generateFromChunks between two chunks: its local
\* `decoder` (mode "null", "false" or "decoder", and then the decoder's
\* state), the characters it has yielded, and whether it has thrown
AdapterState(mode, d, yielded, threw) ==
    [mode |-> mode, d |-> d, yielded |-> yielded, threw |-> threw]

AdapterStart == AdapterState("null", NewTextDecoder, <<>>, FALSE)

\* one turn of the for loop with a decoder that keeps nothing between
\* chunks: every chunk of bytes is decoded whole, on its own
ChunkStepWhole(g, chunk) ==
    IF chunk.kind = "text" THEN [g EXCEPT !.yielded = @ \o chunk.data]
    ELSE [g EXCEPT !.mode = "decoder", !.yielded = @ \o Utf8Decode(chunk.bytes)]

\* one turn of the for loop of generateFromChunks (lines 56-70).  Line 60,
\* `decoder === false;`, compares and assigns nothing, so on a text chunk
\* met while decoder is null the decoder stays null.  decode() of a chunk
\* that is a string throws a TypeError.
ChunkStep(g, chunk) ==
    IF g.mode = "false" THEN [g EXCEPT !.yielded = @ \o chunk.data]
    ELSE IF g.mode = "null" /\ chunk.kind = "text"
    THEN [g EXCEPT !.yielded = @ \o chunk.data]
    ELSE IF chunk.kind = "text" THEN [g EXCEPT !.threw = TRUE]
    ELSE Let(Utf8Stream(IF g.mode = "null" THEN NewTextDecoder ELSE g.d, chunk.bytes),
             LAMBDA r :
             [g EXCEPT !.mode = "decoder", !.d = r.d, !.yielded = @ \o r.out])

\* after the loop (lines 71-73)
ChunkFlush(g) ==
    IF g.mode = "decoder" THEN [g EXCEPT !.yielded = @ \o Utf8Flush(g.d)] ELSE g

RECURSIVE GenerateLoop(_, _, _)
\* the for loop of generateFromChunks from chunk i of list on
GenerateLoop(gen, list, i) ==
    IF i > Len(list) \/ gen.threw THEN gen
    ELSE GenerateLoop(ChunkStep(gen, list[i]), list, i + 1)

\* generateFromChunks(list) run to its end: what it yielded, and whether
\* it threw
generateFromChunks(list) ==
    Let(GenerateLoop(AdapterStart, list, 1), LAMBDA gen :
        IF gen.threw THEN gen ELSE ChunkFlush(gen))

TypeError == Err(<<"TypeError">>, 0)

RECURSIVE MatchEntriesOn(_, _)
\* the loop of matchEntries on the characters of a generator: when the
\* generator threw, matchEntries throws as it asks for a character that
\* was not yielded
MatchEntriesOn(gen, s) ==
    IF s.status # "run" THEN s
    ELSE Let(MatchEntriesStep(gen.yielded, s), LAMBDA next :
             IF gen.threw /\ next.p > Len(gen.yielded)
             THEN EntriesThrow(s, [TypeError EXCEPT !.pos = next.p], <<>>)
             ELSE MatchEntriesOn(gen, next))

\* the value of a parameter the caller gave no argument for
Undefined == [defined |-> FALSE, useExtendedMap |-> FALSE]

\* the options decode builds (line 425)
Options == [defined |-> TRUE, useExtendedMap |-> FALSE]

\* matchEntries(characters, options): makeDataMap({useExtendedMap:
\* options.useExtendedMap}) (line 386) reads a property of options, a
\* TypeError when options is undefined, thrown before any character is asked
\* for
matchEntriesOf(gen, options) ==
    IF ~options.defined THEN EntriesThrow(EntriesStart, TypeError, <<>>)
    ELSE MatchEntriesOn(gen, EntriesStart)

\* the options the callbacks given to then hand to matchEntries (lines 432,
\* 435): none; `options` stands after the callback, as the second argument
\* of then, where a value that is not a function is ignored
ThenOptions == Undefined

(***************************************************************************)
(* The calls.  One behaviour is one call of encode or decode:              *)
(*   tz          the host's time zone (declared above)                     *)
(*   doc         the document given to encode                              *)
(*   encoded     what encode(doc) returned or threw                        *)
(*   chunks      the chunk iterable given to decode                        *)
(*   ci          how many chunks generateFromChunks has taken              *)
(*   g           the state of generateFromChunks                           *)
(*   characters  the characters matchEntries reads                         *)
(*   st          the state of matchEntries                                 *)
(*   reencoded   what encode of the decoded document returned or threw     *)
(*   pc          where the behaviour stands                                *)
(* The generator is run to its end before matchEntries starts; the code    *)
(* runs it on demand, which changes the result only when the generator     *)
(* throws, and then DecodeStep throws as soon as matchEntries asks for a   *)
(* character the generator did not yield.                                  *)
(***************************************************************************)
VARIABLES doc, encoded, chunks, ci, g, characters, st, reencoded, pc

(***************************************************************************)
(* encode on a value graph.  The operators encodeValue, encodeArray and    *)
(* encodeMap above take a value that is a tree; the calls below walk a     *)
(* heap of Arrays and Tables that refer to each other by identity:         *)
(*   heap        node -> [t, kids]; a kid is [key, ref], ref 0 a scalar    *)
(*   stack       the calls of encodeArray and encodeMap in progress: the   *)
(*               node, its level, the order its kids are visited in, and   *)
(*               the kid the call is at                                    *)
(*   references  the WeakSet `references` of encode                       *)
(*   outcome     "start", "run", "done", or the error thrown               *)
(* Of the text rendered the calls keep the fragments, as the code does in  *)
(* `result`, with every scalar written as one fragment and every array and *)
(* table on a single line; `encoded` is what encode returns in the end.    *)
(***************************************************************************)
VARIABLES heap, stack, references, outcome

(***************************************************************************)
(* decode of an asynchronous source, a ReadableStream or a Blob: `chunks`  *)
(* is what the source delivers and `ci` how much of it has been read;      *)
(*   buffer      the array `chunks` of accumulateStreamChunks              *)
(*   promise     the promise decode returned: "none" before the call,      *)
(*               then "pending", and in the end "fulfilled" or "rejected"  *)
(***************************************************************************)
VARIABLES buffer, promise

(***************************************************************************)
(* A call of one function of the tokenizer on its own:                     *)
(*   call        the arguments, with the characters the generator holds    *)
(*   returned    what the call returned or threw, NoResult before it       *)
(***************************************************************************)
VARIABLES call, returned

vars ==
    <<tz, doc, encoded, chunks, ci, g, characters, st, reencoded, pc,
      heap, stack, references, outcome, buffer, promise, call, returned>>

textVars == <<doc, encoded, chunks, ci, g, characters, st, reencoded>>

graphVars == <<heap, stack, references, outcome>>

streamVars == <<buffer, promise>>

callVars == <<call, returned>>

NoResult == Fail(<<>>)

\* bounds of the inputs
MaxLines == 3

MaxCuts == 2

HeapSize == 2

MaxKids == 2

\* the longest text given to a call of matchUntil
MaxScan == 5

\* the most tokens between the brackets of an array literal given to decode
MaxTokens == 4

\* the most pieces in a text made of pieces of the grammar in any order
MaxTangle == 3

\* the host time zones tried, in minutes east of UTC
Zones == {0, 120, -210}

\* the lines the texts given to decode are made of
Lines ==
    <<<<"x", " ", "=", " ", "1", "\n">>,
      <<"y", " ", "=", " ", "2", "\n">>,
      <<"x", " ", "=", " ", "3", "\n">>,
      <<"[", "s", "]", "\n">>,
      <<"[", "t", "]", "\n">>,
      <<"[", "s", ".", "t", "]", "\n">>,
      <<"a", " ", "=", " ", "\n">>,
      <<"a", " ", "=", " ", "{", " ", "[", "b", "]", " ", "=", " ", "1", " ", "}", "\n">>,
      <<"t", " ", "=", " ", "{", " ", "k", " ", "=", " ", "1", ",", " ", "j", " ", "=", " ", "5", ",", " ", "k", " ", "=", " ", "2", " ", "}", "\n">>,
      <<"#", " ", "c", "\n">>,
      <<"a", " ", "=", " ", ",", "\n">>,
      <<"a", " ", "=", " ", "1", " ", "]", "\n">>,
      <<",", " ", "\n">>,
      <<"a", " ", "=", " ", "[", "1", ",", " ", "2", "]", "\n">>,
      <<"a", " ", "=", " ", ";", "\n">>,
      <<"x", " ", "=", " ", "\"", "v", "\"", " ", "#", " ", "c", "\n">>,
      <<"y", " ", "=", " ", "7">>>>

RECURSIVE LineSeqs(_)
\* the sequences of at most n indices of Lines
LineSeqs(n) ==
    IF n = 0 THEN {<<>>}
    ELSE LineSeqs(n - 1)
             \cup {Append(ls, i) : ls \in {l \in LineSeqs(n - 1) : Len(l) = n - 1},
                                  i \in DOMAIN Lines}

\* texts given to decode besides those made of Lines
ExampleTexts ==
    {<<"a", " ", "=", " ", "1", "\n", "a", " ", "=", " ", "2", "\n">>,
     <<"a", " ", "=", " ", "\n">>}

\* lines with the entry a whose value is followed, before the line ends, by
\* another token: a value, a key, a divider, a closing bracket, `;`, `=`
TrailingLines ==
    <<<<"a", " ", "=", " ", "\"", "v", "\"", " ", "2", "\n">>,
      <<"a", " ", "=", " ", "\"", "v", "\"", " ", "b", " ", "=", " ", "2", "\n">>,
      <<"a", " ", "=", " ", "\"", "v", "\"", " ", "\"", "w", "\"", "\n">>,
      <<"a", " ", "=", " ", "1", " ", ",", "\n">>,
      <<"a", " ", "=", " ", "1", " ", "]", "\n">>,
      <<"a", " ", "=", " ", "1", " ", ";", "\n">>,
      <<"a", " ", "=", " ", "1", " ", "=", " ", "2", "\n">>,
      <<"a", " ", "=", " ", "1", " ", "2", "\n">>,
      <<"a", " ", "=", " ", "[", "1", "]", " ", "2", "\n">>,
      <<"a", " ", "=", " ", "{", " ", "k", " ", "=", " ", "1", " ", "}", " ", "}", "\n">>,
      <<"a", " ", "=", " ", "t", "r", "u", "e", " ", "f", "a", "l", "s", "e", "\n">>,
      <<"a", " ", "=", " ", "\"", "v", "\"", " ", ";", " ", "#", " ", "c", "\n">>,
      <<"a", " ", "=", " ", "\"", "v", "\"", " ", "=">>>>

\* the texts with a line of TrailingLines at the root or in a section, as
\* the last line or before another entry
TrailingTexts ==
    {before \o TrailingLines[i] \o after :
        before \in {<<>>, Lines[4], Lines[1] \o Lines[10]},
        i \in DOMAIN TrailingLines,
        after \in {<<>>, Lines[2]}}

\* comments, each up to the line break that follows it: plain, empty, with
\* a quote, with a backslash inside, and with a backslash as the last
\* character or the last two
Comments ==
    <<<<"#", " ", "c", "\n">>,
      <<"#", "\n">>,
      <<"#", " ", "\"", "\n">>,
      <<"#", " ", "\\", "c", "\n">>,
      <<"#", " ", "c", "\\", "\n">>,
      <<"#", " ", "c", "\\", "\\", "\n">>>>

\* the entry on the line after a comment
AfterComment == <<"y", " ", "=", " ", "2", "\n">>

\* the texts with a comment on a line of its own or behind a value, at the
\* root or in a section, and an entry on the next line
CommentTexts ==
    {before \o Comments[i] \o AfterComment :
        before \in {<<>>, Lines[4], <<"x", " ", "=", " ", "1", " ">>},
        i \in DOMAIN Comments}

\* the words for the numbers that are not finite, in upper case, in lower
\* case and capitalised
NonFiniteWords ==
    {<<"N", "A">>, <<"n", "a">>, <<"N", "a">>,
     <<"N", "A", "N">>, <<"n", "a", "n">>, <<"N", "a", "N">>,
     <<"I", "N", "F">>, <<"i", "n", "f">>, <<"I", "n", "f">>,
     <<"I", "N", "F", "I", "N", "I", "T", "Y">>,
     <<"i", "n", "f", "i", "n", "i", "t", "y">>,
     <<"I", "n", "f", "i", "n", "i", "t", "y">>}

\* the literals made of such a word behind a sign or none
NonFiniteLiterals == [sign : {<<>>, <<"+">>, <<"-">>}, word : NonFiniteWords]

\* the text `a = literal`, ended by a line break
NonFiniteText(literal) ==
    <<"a", " ", "=", " ">> \o literal.sign \o literal.word \o <<"\n">>

NonFiniteTexts == {NonFiniteText(literal) : literal \in NonFiniteLiterals}

\* the tokens between the brackets of an array literal: the values 1 and
\* "v" and the divider
ArrayTokens == {<<"1">>, <<"\"", "v", "\"">>, <<",">>}

\* an array literal: its opening bracket, its tokens and its closing bracket
ArrayLiterals ==
    [opener : {"[", "("},
     tokens : UNION {[1..n -> ArrayTokens] : n \in 0..MaxTokens},
     closer : {"]", ")", "}"}]

\* the text `a = literal`, a space after each token, ended by a line break
ArrayText(literal) ==
    <<"a", " ", "=", " ", literal.opener>>
        \o Flat([i \in DOMAIN literal.tokens |-> literal.tokens[i] \o <<" ">>])
        \o <<literal.closer, "\n">>

ArrayTexts == {ArrayText(literal) : literal \in ArrayLiterals}

\* the texts with a section header whose key is empty or made of spaces,
\* alone or before an entry
BlankKeyTexts ==
    {<<"[">> \o blank \o <<"]", "\n">> \o after :
        blank \in {<<>>, <<" ">>, <<" ", " ">>},
        after \in {<<>>, Lines[1]}}

\* the texts with a line that holds a key and a closing bracket, and no
\* opening one: alone, before an entry and after one
NoOpeningTexts ==
    {before \o line \o after :
        before \in {<<>>, Lines[1]},
        line \in {<<"s", "]", "\n">>, <<"s", " ", "]", "\n">>, <<"s", "]">>},
        after \in {<<>>, Lines[2]}}

\* the texts whose entry has a sign and nothing else for its value: at the
\* end of the input, before a line break, before a comment, and before
\* another entry
SignOnlyTexts ==
    {<<"a", " ", "=", " ", sign>> \o after :
        sign \in {"-", "+"},
        after \in {<<>>, <<"\n">>, <<" ", "\n">>, <<" ", "#", "\n">>,
                   <<"\n">> \o Lines[1]}}

Texts ==
    {Flat([i \in DOMAIN ls |-> Lines[ls[i]]]) : ls \in LineSeqs(MaxLines)}
        \cup NoOpeningTexts
        \cup SignOnlyTexts
        \cup BlankKeyTexts
        \cup ArrayTexts
        \cup NonFiniteTexts
        \cup ExampleTexts
        \cup TrailingTexts
        \cup CommentTexts

\* the scalars of the documents given to encode
Scalars ==
    {Str(<<"v">>), Str(<<"a", "\"", "b">>), Str(<<"\\">>),
     Num(0), Num(1), Num(-1500), Dec(15, -1), Dec(1, 21),
     NaN, Inf(1), Inf(-1),
     Date(0, 0), Date(19000, 3600123),
     Keyword("true"), Keyword("false"), Keyword("null")}

\* the values of the entries of the documents given to encode
Values ==
    Scalars
        \cup {Arr(<<>>), Arr(<<Num(1), Str(<<"v">>)>>), Arr(<<Inf(-1)>>),
              Arr(<<Arr(<<Num(1)>>), Map(<<Entry(<<"k">>, Num(1))>>)>>)}
        \cup {EmptyMap,
              Map(<<Entry(<<"k">>, Num(1))>>),
              Map(<<Entry(<<"k">>, Arr(<<Num(1), Num(2)>>))>>),
              Map(<<Entry(<<"t">>, Map(<<Entry(<<"j">>, Str(<<"v">>))>>))>>)}

\* the lengths of the strings that bring an inline table to the width
\* at which encodeMap wraps it
WidthLengths == 68..74

\* a section s that holds the table t = { k = "x...x" } or
\* t = { k = "x...x", j = 1 }, n + 10 characters long on a single line
WidthDocs ==
    {Map(<<Entry(<<"s">>, Map(<<Entry(<<"t">>,
        Map(<<Entry(<<"k">>, Str(Repeat("x", n - 7 * Len(more))))>> \o more))>>))>>) :
            n \in WidthLengths,
            more \in {<<>>, <<Entry(<<"j">>, Num(1))>>}}

\* the keys of the tables given to encode besides a and b: valid ones,
\* ones with a character that is not allowed, and ones that are blank
KeyPool ==
    {<<"k">>, <<" ", "k", " ">>, <<"k", "-", "1", "_", "A">>,
     <<"k", "!">>, <<"a", " ", "b">>, <<"E2">>,
     <<>>, <<" ", " ">>}

\* a document whose root holds the entry key = 1
RootKeyDoc(key) == Map(<<Entry(key, Num(1))>>)

\* a document whose root holds the empty section key
HeaderKeyDoc(key) == Map(<<Entry(key, EmptyMap)>>)

\* documents with a key of KeyPool in the root, in a section, and in a
\* table at nesting level 2
KeyDocs ==
    {RootKeyDoc(key) : key \in KeyPool}
        \cup {HeaderKeyDoc(key) : key \in KeyPool}
        \cup {Map(<<Entry(<<"s">>, RootKeyDoc(key))>>) : key \in KeyPool}
        \cup {Map(<<Entry(<<"s">>, Map(<<Entry(<<"t">>, RootKeyDoc(key))>>))>>) :
                  key \in KeyPool}

\* the values of the entries of documents with three root entries
GroupValues ==
    {Num(1), Arr(<<Num(1), Str(<<"v">>)>>), EmptyMap, Map(<<Entry(<<"k">>, Num(1))>>)}

\* documents with the root entries a, b and c, tables and other values in
\* every order of insertion
GroupDocs ==
    {Map(<<Entry(<<"a">>, u), Entry(<<"b">>, v), Entry(<<"c">>, w)>>) :
        u \in GroupValues, v \in GroupValues, w \in GroupValues}

\* the lengths of the strings in the tables at nesting level 3
DeepLengths == {1, 25, 26, 40}

\* a table { k = "x...x", j = "x...x", i = 1 } with a string of 30 and one
\* of n characters; on a single line it is n + 55 characters long
DeepTable(n) ==
    Map(<<Entry(<<"k">>, Str(Repeat("x", 30))), Entry(<<"j">>, Str(Repeat("x", n))),
          Entry(<<"i">>, Num(1))>>)

\* a section s that holds the table t that holds the table u, which is
\* at nesting level 3
DeepDocs ==
    {Map(<<Entry(<<"s">>, Map(<<Entry(<<"t">>, Map(<<Entry(<<"u">>, DeepTable(n))>>))>>))>>) :
        n \in DeepLengths}

\* the lengths of the strings in the arrays that are or are not wrapped
ArrayLengths == {1, 8, 9, 20}

\* an array ["x...x", "x...x", "x...x"] with two strings of 30 and one of n
\* characters; on a single line it is n + 72 characters long
WideArray(n) ==
    Arr(<<Str(Repeat("x", 30)), Str(Repeat("x", 30)), Str(Repeat("x", n))>>)

\* documents with the entry a = WideArray(n) at the root and in a section,
\* where the array is at nesting level 1
FlatArrayDocs ==
    {Map(<<Entry(<<"a">>, WideArray(n))>>) : n \in ArrayLengths}
        \cup {Map(<<Entry(<<"s">>, Map(<<Entry(<<"a">>, WideArray(n))>>))>>) :
                  n \in ArrayLengths}

\* documents with the entry a = [WideArray(n)] at the root: the inner
\* array is at nesting level 2
NestedArrayDocs ==
    {Map(<<Entry(<<"a">>, Arr(<<WideArray(n)>>))>>) : n \in ArrayLengths}

\* the documents given to encode
\* finite numbers of each form Number.prototype.toString has: integers,
\* fractions, and the exponent forms above 1e21 and below 1e-6
FiniteNumbers ==
    {Num(0), Num(7), Num(-1500), Dec(15, -1), Dec(-25, -3), Dec(1, -6),
     Dec(1, 21), Dec(-15, 21), Dec(1, -7), Dec(-25, -9)}

\* the documents whose one entry is a finite number
NumberDocs == {Map(<<Entry(<<"a">>, v)>>) : v \in FiniteNumbers}

Docs ==
    {EmptyMap}
        \cup {Map(<<Entry(<<"a">>, v)>>) : v \in Values}
        \cup {Map(<<Entry(<<"a">>, v), Entry(<<"b">>, w)>>) : v, w \in Values}
        \cup WidthDocs
        \cup KeyDocs
        \cup GroupDocs
        \cup DeepDocs
        \cup FlatArrayDocs
        \cup NestedArrayDocs
        \cup NumberDocs

\* the texts whose bytes are given to decode in chunks
ChunkTexts ==
    {<<"a", " ", "=", " ", "\"", "E2", "\"", "\n">>,
     <<"b", " ", "=", " ", "\"", "E4", "E3", "\"">>,
     <<"a", " ", "=", " ", "1", "\n", "b", " ", "=", " ", "2", "\n">>,
     <<"a", " ", "=", " ", "\"", "E2">>,
     <<"a", " ", "=", " ", "1", " ", "]", "\n">>,
     <<"[", "a", "]", "\n", "b", " ", "=", " ", "[", "1">>}

RECURSIVE SplitAt(_, _, _)
\* bytes from position `from` on, cut into chunks after the positions cuts
SplitAt(bytes, from, cuts) ==
    IF cuts = <<>> THEN <<ByteChunk(SubSeq(bytes, from + 1, Len(bytes)))>>
    ELSE <<ByteChunk(SubSeq(bytes, from + 1, Head(cuts)))>>
             \o SplitAt(bytes, Head(cuts), Tail(cuts))

\* every split of bytes into consecutive chunks with at most MaxCuts cuts
Splits(bytes) ==
    {SplitAt(bytes, 0, cuts) :
        cuts \in UNION {{c \in [1..k -> 0..Len(bytes)] :
                            \A i \in 1..(k - 1) : c[i] <= c[i + 1]} :
                        k \in 0..MaxCuts}}

\* chunks of text and of bytes that an iterable may mix
ChunkPool ==
    {TextChunk(<<"a", " ", "=", " ", "1", "\n">>),
     TextChunk(<<"b", " ", "=", " ", "\"", "E2", "\"", "\n">>),
     ByteChunk(Utf8Encode(<<"b", " ", "=", " ", "2", "\n">>)),
     ByteChunk(Utf8Encode(<<"a", " ", "=", " ", "\"", "E3", "\"", "\n">>)),
     ByteChunk(Utf8Encode(<<"b", " ", "=", " ">>))}

\* the chunk iterables given to decode
ChunkLists ==
    UNION {Splits(Utf8Encode(t)) : t \in ChunkTexts}
        \cup UNION {[1..k -> ChunkPool] : k \in 1..(MaxCuts + 1)}

\* the kids a node of the heap may have; a Table holds a key once
KidSets(t) ==
    {kids \in UNION {[1..k -> [key : IF t = "MAP" THEN {<<"k">>, <<"j">>, <<"k", "!">>}
                                                 ELSE {<<>>},
                                ref : 0..HeapSize]] :
                      k \in 0..MaxKids} :
        t = "MAP" => \A i, j \in DOMAIN kids : kids[i].key = kids[j].key => i = j}

\* the Arrays and Tables the heap may hold
Nodes == UNION {[t : {t}, kids : KidSets(t)] : t \in {"ARRAY", "MAP"}}

\* the heaps given to encode: node 1, a Table, is the document
Heaps == {h \in [1..HeapSize -> Nodes] : h[1].t = "MAP"}

IdleText ==
    /\ doc = EmptyMap
    /\ encoded = NoResult
    /\ reencoded = NoResult
    /\ chunks = <<>>
    /\ ci = 0
    /\ g = AdapterStart
    /\ characters = <<>>
    /\ st = EntriesStart

IdleGraph ==
    /\ heap = [n \in 1..HeapSize |-> [t |-> "MAP", kids |-> <<>>]]
    /\ stack = <<>>
    /\ references = {}
    /\ outcome = "start"

IdleStream ==
    /\ buffer = <<>>
    /\ promise = "none"

NoCall == [txt |-> <<>>, delimiters |-> <<>>, endOfInput |-> FALSE]

IdleCall ==
    /\ call = NoCall
    /\ returned = NoResult

\* encode(doc)
Encode ==
    /\ pc = "encode"
    /\ encoded' = encode(doc)
    /\ IF encoded'.ok
       THEN pc' = "decode" /\ characters' = encoded'.text
       ELSE pc' = "done" /\ UNCHANGED characters
    /\ UNCHANGED <<tz, doc, chunks, ci, g, st, reencoded>>
    /\ UNCHANGED graphVars
    /\ UNCHANGED streamVars
    /\ UNCHANGED callVars

\* one turn of the loop of matchEntries
DecodeStep ==
    /\ pc = "decode"
    /\ st.status = "run"
    /\ \E next \in {MatchEntriesStep(characters, st)} :
           st' = IF g.threw /\ next.p > Len(characters)
                 THEN EntriesThrow(st, [TypeError EXCEPT !.pos = next.p], <<>>)
                 ELSE next
    /\ UNCHANGED <<tz, doc, encoded, chunks, ci, g, characters, reencoded, pc>>
    /\ UNCHANGED graphVars
    /\ UNCHANGED streamVars
    /\ UNCHANGED callVars

\* encode of the document decode returned
ReEncode ==
    /\ pc = "decode"
    /\ st.status = "done"
    /\ encoded.ok
    /\ reencoded' = encode(st.result)
    /\ pc' = "done"
    /\ UNCHANGED <<tz, doc, encoded, chunks, ci, g, characters, st>>
    /\ UNCHANGED graphVars
    /\ UNCHANGED streamVars
    /\ UNCHANGED callVars

\* generateFromChunks takes the next chunk
TakeChunk ==
    /\ pc = "chunks"
    /\ ci < Len(chunks)
    /\ ~g.threw
    /\ g' = ChunkStep(g, chunks[ci + 1])
    /\ ci' = ci + 1
    /\ UNCHANGED <<tz, doc, encoded, chunks, characters, st, reencoded, pc>>
    /\ UNCHANGED graphVars
    /\ UNCHANGED streamVars
    /\ UNCHANGED callVars

\* generateFromChunks ends: the chunks are exhausted, or it has thrown
EndChunks ==
    /\ pc = "chunks"
    /\ ci = Len(chunks) \/ g.threw
    /\ g' = IF g.threw THEN g ELSE ChunkFlush(g)
    /\ characters' = g'.yielded
    /\ pc' = "decode"
    /\ UNCHANGED <<tz, doc, encoded, chunks, ci, st, reencoded>>
    /\ UNCHANGED graphVars
    /\ UNCHANGED streamVars
    /\ UNCHANGED callVars

\* a call of encodeArray or encodeMap in progress: its input, its level,
\* the order it takes the kids in, the kid it is at, and its `result`, one
\* array of fragments per kid taken
Frame(node, level, order, at, result) ==
    [node |-> node, level |-> level, order |-> order, at |-> at, result |-> result]

\* the order encodeMap and encodeArray visit the kids of a node in: at
\* level 0 the kids that are not Tables, then those that are (lines
\* 560-565), else the order of insertion
VisitOrder(h, node, level) ==
    LET all == [i \in DOMAIN h[node].kids |-> i]
        isMap(i) == h[node].kids[i].ref # 0 /\ h[h[node].kids[i].ref].t = "MAP"
        notMap(i) == ~isMap(i)
    IN  IF level = 0 THEN SelectSeq(all, notMap) \o SelectSeq(all, isMap)
        ELSE all

CircularReference == "circular reference"

InvalidKey == "invalid character in key"

EnterNodeUnchecked(h, node, level) ==
    /\ references' = references \cup {node}
    /\ stack' = Append(stack, Frame(node, level, VisitOrder(h, node, level), 1, <<>>))
    /\ outcome' = "run"

\* the head of encodeArray and of encodeMap (lines 517-518, 556-557) on a
\* node of the heap h: throw when the node is in `references`, else add it
\* and start on its kids
EnterNode(h, node, level) ==
    IF node \in references
    THEN /\ outcome' = CircularReference
         /\ UNCHANGED <<stack, references>>
    ELSE /\ references' = references \cup {node}
         /\ stack' = Append(stack, Frame(node, level, VisitOrder(h, node, level), 1, <<>>))
         /\ outcome' = "run"

\* the array of fragments a call makes for the kid it is at, whose value is
\* rendered as the fragments `value`: at level 0 a table under its header
\* (lines 571-573), else in a Table the key, ` = ` and the value (lines 575,
\* 585, 607), in an Array the value (line 531); the last fragment ends the
\* entry
EntryFragments(h, frame, value) ==
    IF h[frame.node].t = "ARRAY" THEN value \o <<", ">>
    ELSE IF /\ frame.level = 0
            /\ h[frame.node].kids[frame.order[frame.at]].ref # 0
            /\ h[h[frame.node].kids[frame.order[frame.at]].ref].t = "MAP"
    THEN <<IF frame.at > 1 THEN "\n[" ELSE "[">>
             \o Trim(h[frame.node].kids[frame.order[frame.at]].key) \o <<"]", "\n">>
             \o (IF value # <<>> THEN value \o <<"\n">> ELSE <<>>)
    ELSE Trim(h[frame.node].kids[frame.order[frame.at]].key) \o <<" = ">> \o value
             \o <<IF frame.level <= 1 THEN "\n" ELSE ", ">>

\* a call that keeps its input in `references` when it returns
ForgetNothing(refs, node) == refs

\* references.delete(input) (lines 535, 612)
Forget(refs, node) == refs \ {node}

\* the call takes into its result the fragments of the kid it is at and
\* goes on to the next kid
TakeEntry(h, frame, value) ==
    [frame EXCEPT !.at = @ + 1,
                  !.result = Append(@, EntryFragments(h, frame, value))]

\* result[result.length - 1].pop() on a node of the input instead of the
\* call's own result
PopRenderedOfInput(h, frame) ==
    [heap |-> [h EXCEPT ![frame.node].kids = PopLast(@)], frame |-> frame]

\* result[result.length - 1].pop() (lines 532, 578, 587, 608), when result
\* holds an entry: the arrays of `result` are those the callbacks of
\* Array.from and map have made (lines 519-521, 531, 565-577, 581-586, 607),
\* none is an array of the input
PopRendered(h, frame) ==
    [heap |-> h,
     frame |-> IF frame.result = <<>> THEN frame
               ELSE [frame EXCEPT !.result[Len(frame.result)] = PopLast(@)]]

\* what the call returns (lines 526, 533, 579, 588, 602, 609): its result
\* made flat, an Array between brackets, a Table of level 2 or more between
\* braces
Rendering(h, frame) ==
    IF h[frame.node].t = "ARRAY"
    THEN (IF frame.result = <<>> THEN <<"[]">>
          ELSE <<"[">> \o Flat(frame.result) \o <<"]">>)
    ELSE IF frame.level <= 1 THEN Flat(frame.result)
    ELSE IF frame.result = <<>> THEN <<"{}">>
    ELSE <<"{ ">> \o Flat(frame.result) \o <<" }">>

\* encode(input): encodeMap(input, options, new WeakSet(), 0), on a value
\* graph the caller has built
EncodeCall ==
    /\ pc = "graph"
    /\ outcome = "start"
    /\ \E input \in Heaps :
           /\ heap' = input
           /\ EnterNode(input, 1, 0)
    /\ UNCHANGED <<tz, pc>>
    /\ UNCHANGED textVars
    /\ UNCHANGED streamVars
    /\ UNCHANGED callVars

\* the call on top of the stack takes its next kid: checkKey of its key in
\* a Table, which throws when the key has an invalid character (line 546),
\* then encodeValue of its value, which for an Array or a Table calls
\* encodeArray or encodeMap
EncodeKid ==
    /\ pc = "graph"
    /\ outcome = "run"
    /\ LET top == stack[Len(stack)]
       IN  /\ top.at <= Len(top.order)
           /\ LET kid == heap[top.node].kids[top.order[top.at]]
                  levelUpIfNotMap == top.level # 1
              IN  IF heap[top.node].t = "MAP" /\ KeySearch(kid.key) > 0
                  THEN /\ outcome' = InvalidKey
                       /\ UNCHANGED <<stack, references>>
                  ELSE IF kid.ref = 0
                  THEN /\ stack' = [stack EXCEPT ![Len(stack)] =
                                        TakeEntry(heap, top, <<"scalar">>)]
                       /\ UNCHANGED <<references, outcome>>
                  ELSE IF heap[kid.ref].t = "MAP"
                  THEN EnterNode(heap, kid.ref, top.level + 1)
                  ELSE EnterNode(heap, kid.ref,
                                 IF heap[top.node].t = "ARRAY" \/ levelUpIfNotMap
                                 THEN top.level + 1 ELSE top.level)
    /\ UNCHANGED <<tz, pc, heap>>
    /\ UNCHANGED textVars
    /\ UNCHANGED streamVars
    /\ UNCHANGED callVars

\* the call on top of the stack has taken all its kids: it drops the end
\* of its last entry, removes its node from `references` (lines 535, 612)
\* and returns its rendering to its caller, which takes it as the value of
\* the kid it is at; encode returns the rendering of the root joined
\* (line 619)
EncodeReturn ==
    /\ pc = "graph"
    /\ outcome = "run"
    /\ stack[Len(stack)].at > Len(stack[Len(stack)].order)
    /\ \E popped \in {PopRendered(heap, stack[Len(stack)])} :
           /\ heap' = popped.heap
           /\ references' = Forget(references, popped.frame.node)
           /\ IF Len(stack) = 1
              THEN /\ stack' = <<>>
                   /\ outcome' = "done"
                   /\ encoded' = Ok(Rendering(heap', popped.frame))
              ELSE /\ stack' = [SubSeq(stack, 1, Len(stack) - 1)
                                    EXCEPT ![Len(stack) - 1] =
                                        TakeEntry(heap', @, Rendering(heap', popped.frame))]
                   /\ UNCHANGED <<outcome, encoded>>
    /\ UNCHANGED <<tz, pc, doc, chunks, ci, g, characters, st, reencoded>>
    /\ UNCHANGED streamVars
    /\ UNCHANGED callVars

\* decode(input) of a ReadableStream or of a Blob (lines 430-435) returns
\* the promise accumulateStreamChunks(...).then(...), not yet settled;
\* accumulateStreamChunks starts with no chunk (line 78)
DecodeStream ==
    /\ pc = "stream"
    /\ promise = "none"
    /\ promise' = "pending"
    /\ buffer' = <<>>
    /\ UNCHANGED <<tz, doc, encoded, chunks, ci, g, characters, st, reencoded, pc>>
    /\ UNCHANGED graphVars
    /\ UNCHANGED callVars

\* one turn of the for await loop of accumulateStreamChunks (lines 79-81)
StreamChunk ==
    /\ pc = "stream"
    /\ promise = "pending"
    /\ ci < Len(chunks)
    /\ buffer' = Append(buffer, chunks[ci + 1])
    /\ ci' = ci + 1
    /\ UNCHANGED <<tz, doc, encoded, chunks, g, characters, st, reencoded, pc, promise>>
    /\ UNCHANGED graphVars
    /\ UNCHANGED callVars

\* the source is exhausted: accumulateStreamChunks returns the chunks (line
\* 82) and the callback given to then runs matchEntries on a generator over
\* them (lines 432, 435); what the callback returns fulfils the promise,
\* what it throws rejects it.  The generator is the callback's own.
StreamEnd ==
    /\ pc = "stream"
    /\ promise = "pending"
    /\ ci = Len(chunks)
    /\ \E end \in {matchEntriesOf(generateFromChunks(buffer), ThenOptions)} :
           /\ st' = end
           /\ promise' = IF end.status = "done" THEN "fulfilled" ELSE "rejected"
    /\ pc' = "done"
    /\ UNCHANGED <<tz, doc, encoded, chunks, ci, g, characters, reencoded, buffer>>
    /\ UNCHANGED graphVars
    /\ UNCHANGED callVars

\* decode of a text
InitDecodeText ==
    /\ IdleGraph
    /\ IdleStream
    /\ IdleCall
    /\ doc = EmptyMap
    /\ encoded = NoResult
    /\ reencoded = NoResult
    /\ chunks = <<>>
    /\ ci = 0
    /\ g = AdapterStart
    /\ characters \in Texts
    /\ st = EntriesStart
    /\ tz = 0
    /\ pc = "decode"

SpecDecode == InitDecodeText /\ [][DecodeStep]_vars

\* encode of a document, decode of its text, encode of what decode returned
InitRoundTrip ==
    /\ IdleGraph
    /\ IdleStream
    /\ IdleCall
    /\ doc \in Docs
    /\ encoded = NoResult
    /\ reencoded = NoResult
    /\ chunks = <<>>
    /\ ci = 0
    /\ g = AdapterStart
    /\ characters = <<>>
    /\ st = EntriesStart
    /\ tz \in Zones
    /\ pc = "encode"

NextRoundTrip == Encode \/ DecodeStep \/ ReEncode

SpecRoundTrip == InitRoundTrip /\ [][NextRoundTrip]_vars

\* decode of an iterable of chunks
InitChunks ==
    /\ IdleGraph
    /\ IdleStream
    /\ IdleCall
    /\ doc = EmptyMap
    /\ encoded = NoResult
    /\ reencoded = NoResult
    /\ chunks \in ChunkLists
    /\ ci = 0
    /\ g = AdapterStart
    /\ characters = <<>>
    /\ st = EntriesStart
    /\ tz = 0
    /\ pc = "chunks"

NextChunks == TakeChunk \/ EndChunks \/ DecodeStep

SpecChunks == InitChunks /\ [][NextChunks]_vars

\* encode of a value graph
InitGraph ==
    /\ IdleText
    /\ IdleGraph
    /\ IdleStream
    /\ IdleCall
    /\ tz = 0
    /\ pc = "graph"

NextGraph == EncodeCall \/ EncodeKid \/ EncodeReturn

\* encode runs to its end: it is synchronous and nothing suspends it, so
\* the step that can be taken (there is never more than one) is taken
SpecGraph ==
    /\ InitGraph
    /\ [][NextGraph]_vars
    /\ WF_vars(EncodeCall)
    /\ WF_vars(EncodeKid)
    /\ WF_vars(EncodeReturn)

\* decode of an asynchronous source that delivers chunks
InitStream ==
    /\ IdleGraph
    /\ IdleStream
    /\ IdleCall
    /\ doc = EmptyMap
    /\ encoded = NoResult
    /\ reencoded = NoResult
    /\ chunks \in ChunkLists
    /\ ci = 0
    /\ g = AdapterStart
    /\ characters = <<>>
    /\ st = EntriesStart
    /\ tz = 0
    /\ pc = "stream"

NextStream == DecodeStream \/ StreamChunk \/ StreamEnd

SpecStream == InitStream /\ [][NextStream]_vars

\* the characters of the texts given to matchUntil: a delimiter, another
\* one, the backslash, and one that is neither
ScanAlphabet == {"x", "\\", "\"", "\n"}

ScanTexts == UNION {[1..n -> ScanAlphabet] : n \in 0..MaxScan}

\* matchUntil(characters, delimiters, {endOfInput}) on a generator that has
\* yielded nothing yet
CallMatchUntil ==
    /\ pc = "call"
    /\ returned' = matchUntil(call.txt, 0, call.delimiters, call.endOfInput, "")
    /\ pc' = "done"
    /\ UNCHANGED <<tz, doc, encoded, chunks, ci, g, characters, st, reencoded, call>>
    /\ UNCHANGED graphVars
    /\ UNCHANGED streamVars

InitUntil ==
    /\ IdleText
    /\ IdleGraph
    /\ IdleStream
    /\ call \in [txt : ScanTexts, delimiters : {<<"\"">>, <<"\"", "\n">>},
                 endOfInput : BOOLEAN]
    /\ returned = NoResult
    /\ tz = 0
    /\ pc = "call"

SpecUntil == InitUntil /\ [][CallMatchUntil]_vars

\* the pieces of the grammar: brackets, dividers, a key with its `=`, a
\* number, a string, a comment, a line break, a quote, a backslash, a space
TanglePieces ==
    {<<"[">>, <<"]">>, <<"{">>, <<"}">>, <<",">>, <<"k", " ", "=", " ">>,
     <<"1">>, <<"\"", "v", "\"">>, <<"#", "c", "\n">>, <<"\n">>, <<"\"">>,
     <<"\\">>, <<" ">>}

\* the pieces in every order, at the start of a text and after `a = `
TangleTexts ==
    {before \o Flat(pieces) :
        before \in {<<>>, <<"a", " ", "=", " ">>},
        pieces \in UNION {[1..n -> TanglePieces] : n \in 0..MaxTangle}}

\* texts with arrays and inline tables inside one another, closed and not,
\* with comments, line breaks and escapes inside them
NestTexts ==
    {<<"a", " ", "=", " ">> \o value \o after :
        value \in {<<"[", "[", "1", ",", " ", "{", "k", " ", "=", " ", "[", "2", "]",
                     "}", "]", ",", " ", "\"", "v", "\"", "]">>,
                   <<"{", "k", " ", "=", " ", "{", "j", " ", "=", " ", "[", "1", ",",
                     " ", "[", "2", "]", "]", "}", "}">>,
                   <<"[", "1", ",", " ", "#", "c", "\n", " ", "(", "2", ",", ")",
                     "\n", "]">>,
                   <<"[", "\"", "\\", "\"", "]", "\"", ",", " ", "{", "k", " ", "=",
                     " ", "\"", "#", "\"", "}", "]">>,
                   <<"[", "[", "[", "{", "k", " ", "=", " ", "[", "{">>,
                   <<"[", "{", "k", " ", "=", " ", "1", "]", "}">>},
        after \in {<<>>, <<"\n">>, <<" ", "#", "c">>, <<"\n">> \o Lines[1]}}

\* decode of a text made of pieces of the grammar
InitTangle ==
    /\ IdleGraph
    /\ IdleStream
    /\ IdleCall
    /\ doc = EmptyMap
    /\ encoded = NoResult
    /\ reencoded = NoResult
    /\ chunks = <<>>
    /\ ci = 0
    /\ g = AdapterStart
    /\ characters \in TangleTexts \cup NestTexts
    /\ st = EntriesStart
    /\ tz = 0
    /\ pc = "decode"

\* decode runs to its end: matchEntries is synchronous and nothing suspends
\* it, so the next turn of its loop is taken as long as there is one
SpecTerminate ==
    /\ InitTangle
    /\ [][DecodeStep]_vars
    /\ WF_vars(DecodeStep)

Init ==
    \/ InitDecodeText
    \/ InitRoundTrip
    \/ InitChunks
    \/ InitGraph
    \/ InitStream
    \/ InitUntil
    \/ InitTangle

Next ==
    \/ Encode
    \/ DecodeStep
    \/ ReEncode
    \/ TakeChunk
    \/ EndChunks
    \/ EncodeCall
    \/ EncodeKid
    \/ EncodeReturn
    \/ DecodeStream
    \/ StreamChunk
    \/ StreamEnd
    \/ CallMatchUntil

Spec == Init /\ [][Next]_vars

(***************************************************************************)
(* Claims about decode of a text (SpecDecode)                              *)
(***************************************************************************)

Keys(map) == [i \in DOMAIN map.items |-> EntryKey(map.items[i])]

RECURSIVE KeysWithin(_)
\* the keys of the tables of value, at every depth, one after the other
KeysWithin(value) ==
    (IF value.t = "MAP" THEN Keys(value) ELSE <<>>)
        \o Flat([i \in DOMAIN value.items |-> KeysWithin(value.items[i])])

\* the keys of the tables of value, at every depth
AllKeys(value) == Range(KeysWithin(value))

\* the positions, among the first p characters of txt, of a "[" that
\* opens a line: the section headers read so far
HeaderStarts(txt, p) ==
    {i \in (1..p) \cap DOMAIN txt : txt[i] = "[" /\ (i = 1 \/ txt[i - 1] = "\n")}

Max(S) == CHOOSE x \in S : \A y \in S : y <= x

\* the name in the header that starts at position i of txt
HeaderName(txt, i) ==
    LET close == CHOOSE j \in (i + 1)..Len(txt) :
                     txt[j] = "]" /\ \A k \in (i + 1)..(j - 1) : txt[k] # "]"
    IN  SubSeq(txt, i + 1, close - 1)

\* table `after` is table `before` with key set to value and nothing else
\* changed: no other key added, dropped or given another value
OnlyKeyWritten(before, after, key, value) ==
    /\ MapHas(after, key)
    /\ MapGet(after, key) = value
    /\ Range(Keys(after)) = Range(Keys(before)) \cup {key}
    /\ \A k \in Range(Keys(before)) \ {key} : MapGet(after, k) = MapGet(before, k)

\* one turn that read an entry wrote it where the claim C3 says
EntryStoredInScope ==
    (st'.last.kind = "entry" /\ st' # st) =>
        LET hs == HeaderStarts(characters, st.p)
            section == HeaderName(characters, Max(hs))
        IN  IF hs = {}
            THEN OnlyKeyWritten(st.result, st'.result, st'.last.key, st'.last.val)
            ELSE /\ MapHas(st.result, section)
                 /\ OnlyKeyWritten(st.result, st'.result, section,
                                   MapGet(st'.result, section))
                 /\ OnlyKeyWritten(MapGet(st.result, section),
                                   MapGet(st'.result, section),
                                   st'.last.key, st'.last.val)

SectionExample ==
    (characters = <<"x", " ", "=", " ", "1", "\n", "[", "s", "]", "\n", "y", " ", "=", " ", "2", "\n">> /\ st.status # "run") =>
        /\ st.status = "done"
        /\ st.result = Map(<<Entry(<<"x">>, Num(1)),
                             Entry(<<"s">>, Map(<<Entry(<<"y">>, Num(2))>>))>>)

\* C3: section scoping.  In decode an unbracketed `key = value` entry read
\* before the first section header is stored in the root table, an entry
\* read after a header is stored in the table of the most recent header,
\* and nothing else changes; `x = 1\n[s]\ny = 2\n` decodes to
\* {x: 1, s: {y: 2}}.
C3_SectionScoping == [][EntryStoredInScope]_vars /\ []SectionExample

\* an entry has been stored in the second of two sections
C3_Witness ==
    /\ st.last.kind = "entry"
    /\ Cardinality(HeaderStarts(characters, st.p)) = 2
    /\ st.section = <<"t">>
    /\ MapHas(st.result, <<"s">>)
    /\ MapHas(MapGet(st.result, <<"t">>), st.last.key)

\* C4 (as claimed): decode rejects a dotted bracket header such as `[s.t]`
\* at the root, and rejects a bracket-form key inside an inline table: no
\* turn of matchEntries opens a section whose name holds a dot, and the
\* text `a = { [b] = 1 }` ends in an error.
C4_BracketHeadersRejected ==
    /\ st.last.kind = "header" => ~Includes(st.last.key, ".")
    /\ (characters = <<"a", " ", "=", " ", "{", " ", "[", "b", "]", " ", "=", " ", "1", " ", "}", "\n">> /\ st.status # "run")
           => st.status = "error"

RECURSIVE UniqueKeys(_)
\* no table in value holds a key twice
UniqueKeys(value) ==
    /\ value.t = "MAP" =>
           \A i, j \in DOMAIN value.items :
               EntryKey(value.items[i]) = EntryKey(value.items[j]) => i = j
    /\ \A i \in DOMAIN value.items : UniqueKeys(value.items[i])

\* a turn that assigned a key its table held already left the table's keys
\* where they were and gave the key the new value
OverwriteInPlace ==
    (st'.last.kind = "entry" /\ st' # st) =>
        LET hs == HeaderStarts(characters, st.p)
            before == IF hs = {} THEN st.result
                      ELSE MapGet(st.result, HeaderName(characters, Max(hs)))
            after == IF hs = {} THEN st'.result
                     ELSE MapGet(st'.result, HeaderName(characters, Max(hs)))
        IN  MapHas(before, st'.last.key) =>
                /\ Keys(after) = Keys(before)
                /\ MapGet(after, st'.last.key) = st'.last.val

OverwriteExamples ==
    /\ (characters = <<"a", " ", "=", " ", "1", "\n", "a", " ", "=", " ", "2", "\n">> /\ st.status # "run") =>
           /\ st.status = "done"
           /\ st.result = Map(<<Entry(<<"a">>, Num(2))>>)
    /\ (st.last.kind = "entry" /\ st.last.key = <<"t">>) =>
           st.last.val = Map(<<Entry(<<"k">>, Num(2)), Entry(<<"j">>, Num(5))>>)

\* C5: duplicate keys.  A key assigned again within one table (the root, a
\* section, an inline table) keeps one entry, at the position of its first
\* assignment, with the value assigned last; `a = 1\na = 2\n` decodes to
\* the single entry a = 2.
C5_DuplicateKeyOverwrite ==
    /\ [][OverwriteInPlace]_vars
    /\ [](UniqueKeys(st.result) /\ OverwriteExamples)

\* x was assigned twice in the root with y in between, and an inline table
\* with k twice has been read into a section
C5_Witness ==
    \/ /\ characters = <<"x", " ", "=", " ", "1", "\n", "y", " ", "=", " ", "2", "\n", "x", " ", "=", " ", "3", "\n">>
       /\ st.status = "done"
       /\ st.result = Map(<<Entry(<<"x">>, Num(3)), Entry(<<"y">>, Num(2))>>)
    \/ /\ st.inSection
       /\ st.last.kind = "entry"
       /\ st.last.key = <<"t">>
       /\ Len(st.last.val.items) = 2

\* a token class as the claim names it
ClassNamed(type) ==
    CASE type = "KEY" -> "key"
      [] type = "VALUE" -> "value"
      [] type = "LIST_DIVIDER" -> "list divider"
      [] type = "LIST_DELIMITER" -> "list delimiter"
      [] type = "NEW_LINE" -> "new line"
      [] type = "END_OF_INPUT" -> "end of input"
      [] type = "UNKNOWN" -> "unknown"

\* sub occurs in s as a run of consecutive elements
Contains(s, sub) ==
    \E i \in 0..(Len(s) - Len(sub)) : SubSeq(s, i + 1, i + Len(sub)) = sub

\* the first n elements of s, or all of s when it has fewer
Prefix(s, n) == SubSeq(s, 1, IF Len(s) < n THEN Len(s) ELSE n)

\* an error of checkMatch that decode threw names every expected class
\* and the class found or, for an unknown token, the text reached; of the
\* ReachedLength characters the message quotes, four are the quotation
\* marks and the spaces inside them
MismatchNamed ==
    (st.status = "error" /\ st.found # "") =>
        /\ \A i \in DOMAIN st.expected : Includes(st.msg, ClassNamed(st.expected[i]))
        /\ Includes(st.msg, " expected but ")
        /\ st.found # "UNKNOWN" => Includes(st.msg, ClassNamed(st.found))
        /\ (st.found = "UNKNOWN" \/ st.reached # <<>>) =>
               Contains(st.msg, Prefix(st.reached, ReachedLength - 4))

\* texts whose first token is of a class that is not expected, with the
\* classes expected there and the class of the token
MismatchCases ==
    {<<<<"a", " ", "=", " ", "\n">>, <<"VALUE">>, "NEW_LINE">>,
     <<<<"a", " ", "=", " ", ",", "\n">>, <<"VALUE">>, "LIST_DIVIDER">>,
     <<<<"a", " ", "=", " ", ";", "\n">>, <<"VALUE">>, "UNKNOWN">>,
     <<<<",", " ", "\n">>, <<"KEY", "NEW_LINE", "END_OF_INPUT">>, "LIST_DIVIDER">>,
     <<<<"a", " ", "=", " ", "1", " ", "]", "\n">>, <<"NEW_LINE", "END_OF_INPUT">>, "LIST_DELIMITER">>}

MismatchAborts ==
    \A c \in MismatchCases :
        (characters = c[1] /\ st.status # "run") =>
            /\ st.status = "error"
            /\ st.expected = c[2]
            /\ st.found = c[3]

\* C8: expected-class errors.  When matchNext classifies the next token
\* into a class that is not expected, decode aborts with an error whose
\* message names every expected class and the class or text reached;
\* decoding `a = \n` names "value" as expected and a new line as reached.
C8_ExpectedClassErrors == MismatchNamed /\ MismatchAborts

\* decode of `a = \n` has thrown, and so has a decode where three classes
\* were expected
C8_Witness ==
    /\ st.status = "error"
    /\ \/ characters = <<"a", " ", "=", " ", "\n">> /\ st.found = "NEW_LINE"
       \/ Len(st.expected) = 3 /\ st.found = "LIST_DIVIDER"

\* C15: at the root and in a section the value of an entry is followed by
\* the end of the line (a new line or a comment) or the end of the input.
\* decode of a text in which another token follows the value on its line
\* raises a configuration error at that entry and stores no such entry;
\* and every turn of matchEntries that stored an entry has read up to the
\* end of the entry's line or of the input.
C15_ValueEndsLine ==
    /\ (characters \in TrailingTexts /\ st.status # "run") =>
           /\ st.status = "error"
           /\ Contains(st.msg, <<" at entry ">> \o repr(<<"a">>, ReprDefaultLength))
           /\ <<"a">> \notin AllKeys(st.result)
    /\ st.last.kind = "entry" =>
           (st.p > Len(characters) \/ characters[st.p] = "\n")

\* decode has raised the error for a second value that follows a string
\* on the line of an entry, where the end of the line was expected
C15_Witness ==
    /\ characters \in TrailingTexts
    /\ st.status = "error"
    /\ st.expected = ExpectLineEnd
    /\ st.found = "VALUE"
    /\ st.inSection

\* C22 (as claimed): comments.  A comment runs to the end of its line and
\* no further, whatever its characters: decode of a text with a comment
\* and an entry on the next line returns a document, and the entry is in it.
C22_CommentEndsWithLine ==
    (pc = "decode" /\ characters \in CommentTexts /\ st.status # "run") =>
        /\ st.status = "done"
        /\ <<"y">> \in AllKeys(st.result)

\* the number the claim gives a literal of NonFiniteLiterals
NonFiniteValue(literal) ==
    IF ToUpperCase(literal.word) \in {<<"N", "A">>, <<"N", "A", "N">>} THEN NaN
    ELSE Inf(IF literal.sign = <<"-">> THEN -1 ELSE 1)

\* C23 (as claimed): signed literals of the numbers that are not finite.
\* decode of `a = literal`, the literal a sign or none and then NA, NAN, INF
\* or INFINITY in any case, returns a document where a is NaN for NA and
\* NAN, and the infinity of that sign for INF and INFINITY.
C23_SignedNonFinite ==
    \A literal \in NonFiniteLiterals :
        (pc = "decode" /\ characters = NonFiniteText(literal) /\ st.status # "run") =>
            /\ st.status = "done"
            /\ MapHas(st.result, <<"a">>)
            /\ MapGet(st.result, <<"a">>) = NonFiniteValue(literal)

\* the literal of ArrayLiterals that a text of ArrayTexts holds
ArrayLiteralOf(text) == CHOOSE literal \in ArrayLiterals : ArrayText(literal) = text

IsDivider(token) == token = <<",">>

\* tokens are VALUE (LIST_DIVIDER VALUE)* or nothing
ValuesAndDividers(tokens) ==
    /\ \A i \in DOMAIN tokens : IsDivider(tokens[i]) <=> i % 2 = 0
    /\ Len(tokens) % 2 = 1 \/ tokens = <<>>

\* tokens are VALUE (LIST_DIVIDER VALUE)* with or without a divider after
\* the last value, or nothing
ValuesAndDividersOrLastDivider(tokens) ==
    /\ \A i \in DOMAIN tokens : IsDivider(tokens[i]) <=> i % 2 = 0

\* the values among the tokens, in their order
TokenValues(tokens) ==
    Let(SelectSeq(tokens, LAMBDA token : ~IsDivider(token)), LAMBDA values :
        Arr([i \in DOMAIN values |-> IF values[i] = <<"1">> THEN Num(1) ELSE Str(<<"v">>)]))

\* decode of the text of an array literal whose tokens are Accepted and
\* whose brackets match returns the values in order; it throws when the
\* tokens are not Accepted; and when they are and the closing bracket is not
\* the opening bracket's, the error names the one expected and the one found
ArrayGrammar(Accepted(_)) ==
    (pc = "decode" /\ characters \in ArrayTexts /\ st.status # "run") =>
        Let(ArrayLiteralOf(characters), LAMBDA literal :
            IF ~Accepted(literal.tokens) THEN st.status = "error"
            ELSE IF literal.closer = ArrayCloser(literal.opener)
            THEN /\ st.status = "done"
                 /\ MapGet(st.result, <<"a">>) = TokenValues(literal.tokens)
            ELSE /\ st.status = "error"
                 /\ st.msg = <<"end of array ">>
                                 \o repr(<<ArrayCloser(literal.opener)>>, ReprDefaultLength)
                                 \o <<" expected but ">>
                                 \o repr(<<literal.closer>>, ReachedLength)
                                 \o <<" reached", " at entry ">>
                                 \o repr(<<"a">>, ReprDefaultLength))

\* C24 (as claimed): array grammar.  decode accepts an array literal only
\* when its tokens are VALUE (LIST_DIVIDER VALUE)* or nothing, so that a
\* divider never leads, never repeats and never stands before the closing
\* bracket, and when the closing bracket is the opening bracket's; another
\* closing bracket, `}` included, gives an error that names the one expected
\* and the one found; the array holds the values in the order of the text.
C24_ArrayGrammarAsClaimed == ArrayGrammar(ValuesAndDividers)

\* C24 (amended): array grammar.  As claimed, but for the divider after the
\* last value: decode accepts a literal whose tokens are
\* VALUE (LIST_DIVIDER VALUE)* with or without one more divider before the
\* closing bracket, or nothing; a divider never leads and never repeats.
C24_ArrayGrammar == ArrayGrammar(ValuesAndDividersOrLastDivider)

\* decode has returned the array of a literal with a divider before its
\* closing bracket
C24_Witness ==
    /\ pc = "decode"
    /\ characters = ArrayText([opener |-> "(", tokens |-> <<<<"1">>, <<",">>, <<"\"", "v", "\"">>, <<",">>>>,
                               closer |-> ")"])
    /\ st.status = "done"
    /\ MapGet(st.result, <<"a">>) = Arr(<<Num(1), Str(<<"v">>)>>)

\* C25 (as claimed): blank keys.  decode of a text with the header `[]`,
\* or a header with only spaces between its brackets, throws the error of
\* a blank key; and no table decode has built, the root, a section or an
\* inline table, holds a key that is empty or made of spaces only.
C25_BlankKeysRejected ==
    /\ (pc = "decode" /\ characters \in BlankKeyTexts /\ st.status # "run") =>
           /\ st.status = "error"
           /\ st.msg[Len(st.msg)] = " invalid (blank)"
    /\ pc = "decode" => \A key \in AllKeys(st.result) : Trim(key) # <<>>

\* C29 (as claimed): a sign is not a number.  decode of a text whose entry
\* has only `-` or `+` for its value throws the error of an invalid number,
\* and returns no document.
C29_SignOnlyRejected ==
    (pc = "decode" /\ characters \in SignOnlyTexts /\ st.status # "run") =>
        /\ st.status = "error"
        /\ st.msg[1] = "number "
        /\ st.msg[Len(st.msg)] = " invalid"

\* the characters a turn of decode has taken
TurnText == SubSeq(characters, st.p + 1, st'.p)

\* C26 (as claimed): what opens a section.  A turn of decode opens a section,
\* and only such a turn changes the table that later entries go to, only
\* when the key it read began with `[` and ended with `]`: the first
\* character of the turn that is not white space is `[` and its last is
\* `]` (when no comment stands before the key).
C26_SectionOnlyByBrackets ==
    [][(pc = "decode" /\ st.status = "run" /\ st' # st) =>
          /\ (st'.inSection # st.inSection \/ st'.section # st.section) =>
                 st'.last.kind = "header"
          /\ (st'.last.kind = "header" /\ ~Includes(TurnText, "#")) =>
                 /\ TrimStart(TurnText) # <<>>
                 /\ Head(TrimStart(TurnText)) = "["
                 /\ TurnText[Len(TurnText)] = "]"]_vars

(***************************************************************************)
(* Claims about encode followed by decode (SpecRoundTrip)                  *)
(***************************************************************************)

RECURSIVE SameDocument(_, _)
\* a and b are structurally equal: the same type and, for an Array, equal
\* elements in order; for a Table, the same keys with equal values (the
\* order of the keys is not compared); scalars equal, NaN equal to NaN
SameDocument(a, b) ==
    IF a.t # b.t THEN FALSE
    ELSE IF a.t = "ARRAY"
    THEN /\ Len(a.items) = Len(b.items)
         /\ \A i \in DOMAIN a.items : SameDocument(a.items[i], b.items[i])
    ELSE IF a.t = "MAP"
    THEN /\ Len(a.items) = Len(b.items)
         /\ Range(Keys(a)) = Range(Keys(b))
         /\ \A key \in Range(Keys(a)) : SameDocument(MapGet(a, key), MapGet(b, key))
    ELSE a = b

\* C1 (as claimed): round trip.  For every document of representable
\* scalars, arrays and tables with valid keys that encode has rendered,
\* decode of the text ends without an error and returns a document
\* structurally equal to the one encoded.
C1_RoundTrip ==
    (encoded.ok /\ pc \in {"decode", "done"} /\ st.status # "run") =>
        /\ st.status = "done"
        /\ SameDocument(st.result, doc)

\* the table t of a document of WidthDocs, at nesting level 2
WidthTable(d) == MapGet(MapGet(d, <<"s">>), <<"t">>)

\* the text of the values of a table of WidthDocs: strings and numbers
ScalarText(value) == IF value.t = "STRING" THEN encodeString(value) ELSE encodeNumber(value)

\* the single-line rendering `{ k = v, ... }` of a table of scalars
SingleLine(table) ==
    <<"{", " ">>
        \o Flat([i \in DOMAIN table.items |->
                    EntryKey(table.items[i]) \o <<" ", "=", " ">>
                        \o ScalarText(EntryValue(table.items[i]))
                        \o (IF i < Len(table.items) THEN <<",", " ">> ELSE <<>>)])
        \o <<" ", "}">>

\* the multi-line form of a table of scalars: one indented entry per line
MultiLine(table) ==
    <<"{", "\n">>
        \o Flat([i \in DOMAIN table.items |->
                    Indent \o EntryKey(table.items[i]) \o <<" ", "=", " ">>
                        \o ScalarText(EntryValue(table.items[i])) \o <<",", "\n">>])
        \o <<"}">>

\* what encode rendered for s.t: the text after `[s]\nt = `
RenderedTable == SubSeq(encoded.text, 9, Len(encoded.text))

\* C7 (as claimed): formatting threshold.  A non-empty table at nesting
\* level 2 whose single-line rendering is exactly 80 characters long is
\* rendered on that single line, and one whose single-line rendering is
\* exactly 81 characters long is rendered in the multi-line form.
C7_FormattingThreshold ==
    (doc \in WidthDocs /\ pc # "encode") =>
        /\ encoded.ok
        /\ Len(SingleLine(WidthTable(doc))) = WrapWidth =>
               RenderedTable = SingleLine(WidthTable(doc))
        /\ Len(SingleLine(WidthTable(doc))) = WrapWidth + 1 =>
               RenderedTable = MultiLine(WidthTable(doc))

\* C9 (as claimed): idempotence.  For every document encode accepts,
\* decode of its text returns a document, and encode of that document
\* gives the same text, character for character.
C9_Idempotence ==
    (encoded.ok /\ pc \in {"decode", "done"} /\ st.status # "run") =>
        /\ st.status = "done"
        /\ pc = "done" => (reencoded.ok /\ reencoded.text = encoded.text)

\* s is one or more letters, digits, `_` or `-`
KeyPattern(s) == s # <<>> /\ \A i \in DOMAIN s : IsKeyChar(s[i])

\* the place where sub first occurs in s, 0 when it does not
IndexOf(s, sub) ==
    IF Contains(s, sub)
    THEN CHOOSE i \in 1..Len(s) :
             /\ SubSeq(s, i, i + Len(sub) - 1) = sub
             /\ \A j \in 1..(i - 1) : SubSeq(s, j, j + Len(sub) - 1) # sub
    ELSE 0

\* the key encode wrote for the one entry of a document RootKeyDoc(key):
\* the text before ` = `; and for HeaderKeyDoc(key): the text between the
\* brackets
KeyWritten ==
    IF doc.items # <<>> /\ EntryValue(doc.items[1]).t = "MAP"
    THEN SubSeq(encoded.text, 2, Len(encoded.text) - 1)
    ELSE SubSeq(encoded.text, 1, IndexOf(encoded.text, <<" ", "=", " ">>) - 1)

\* the error names a character of a key of doc that is not allowed
NamesOffendingCharacter ==
    \E key \in AllKeys(doc) : \E i \in DOMAIN Trim(key) :
        /\ NotKeyChar(Trim(key)[i])
        /\ Contains(encoded.msg,
                    <<"invalid character ">> \o repr(<<Trim(key)[i]>>, ReprDefaultLength))

\* C12 (as claimed): key validity at encode time.  encode raises an error
\* for every document with a table key that, trimmed, is not one or more
\* letters, digits, `_` or `-` (a key that trims to empty included), the
\* error names the offending character, and every key encode writes is
\* one or more of the allowed characters.
C12_EncodeKeyValidity ==
    pc # "encode" =>
        /\ (\E key \in AllKeys(doc) : ~KeyPattern(Trim(key))) =>
               (~encoded.ok /\ NamesOffendingCharacter)
        /\ (encoded.ok /\ \E key \in KeyPool : doc \in {RootKeyDoc(key), HeaderKeyDoc(key)}) =>
               KeyPattern(KeyWritten)

\* root entry i of doc is a section: its value is a table
IsSection(i) == EntryValue(doc.items[i]).t = "MAP"

\* the place in the text encode returned where root entry i of doc begins,
\* 0 when it is not there: its header `[key]` for a section, else `key = `
EntryPlace(i) ==
    IF IsSection(i)
    THEN IndexOf(encoded.text, <<"[">> \o Trim(EntryKey(doc.items[i])) \o <<"]">>)
    ELSE IndexOf(encoded.text, Trim(EntryKey(doc.items[i])) \o <<" ", "=", " ">>)

\* C13: root grouping.  In the text encode returns for a root table every
\* root entry is written; every entry whose value is a scalar or an array
\* comes before every entry whose value is a table, whatever the order of
\* insertion; and two entries of the same group come in their order of
\* insertion.
C13_RootGrouping ==
    (pc # "encode" /\ encoded.ok) =>
        \A i, j \in DOMAIN doc.items :
            /\ EntryPlace(i) > 0
            /\ (~IsSection(i) /\ IsSection(j)) => EntryPlace(i) < EntryPlace(j)
            /\ (IsSection(i) = IsSection(j) /\ i < j) => EntryPlace(i) < EntryPlace(j)

\* encode has returned the text of a document whose first root entry is a
\* table, inserted before a scalar or an array, and whose last is a table
C13_Witness ==
    /\ pc # "encode"
    /\ encoded.ok
    /\ Len(doc.items) = 3
    /\ IsSection(1)
    /\ ~IsSection(2)
    /\ IsSection(3)
    /\ EntryPlace(2) = 1

\* the table u of a document of DeepDocs, at nesting level 3
DeepTableOf(d) == MapGet(MapGet(MapGet(d, <<"s">>), <<"t">>), <<"u">>)

\* every entry of the table stands in text on a line of its own, behind an
\* indentation of four spaces and before a comma
EntryPerLine(text, table) ==
    \A i \in DOMAIN table.items :
        Contains(text, <<"\n">> \o Indent \o EntryKey(table.items[i]) \o <<" ", "=", " ">>
                           \o ScalarText(EntryValue(table.items[i])) \o <<",", "\n">>)

\* C17 (as claimed): table rendering at every nesting level from 2 on.  A
\* table at nesting level 3 that is not empty is rendered on a single line
\* `{ k = v, k2 = v2 }` when that line is at most 80 characters long, and
\* else with one entry per line, each indented by four spaces and ended by
\* a comma.
C17_TableRenderingAtEveryLevel ==
    (doc \in DeepDocs /\ pc # "encode") =>
        /\ encoded.ok
        /\ IF Len(SingleLine(DeepTableOf(doc))) <= WrapWidth
           THEN Contains(encoded.text, SingleLine(DeepTableOf(doc)))
           ELSE /\ ~Contains(encoded.text, SingleLine(DeepTableOf(doc)))
                /\ EntryPerLine(encoded.text, DeepTableOf(doc))

\* the array of a document of FlatArrayDocs
FlatArrayOf(d) ==
    IF MapHas(d, <<"a">>) THEN MapGet(d, <<"a">>) ELSE MapGet(MapGet(d, <<"s">>), <<"a">>)

\* the inner array of a document of NestedArrayDocs
NestedArrayOf(d) == MapGet(d, <<"a">>).items[1]

\* the inline rendering `[a, b, c]` of an array of scalars
InlineArray(array) ==
    <<"[">>
        \o Flat([i \in DOMAIN array.items |->
                    ScalarText(array.items[i])
                        \o (IF i < Len(array.items) THEN <<",", " ">> ELSE <<>>)])
        \o <<"]">>

\* every element of the array stands in text on a line of its own, indented
\* and before a comma, and the closing bracket stands on its own line
ElementPerLine(text, array) ==
    /\ \A i \in DOMAIN array.items :
           Contains(text, <<"\n">> \o Indent \o ScalarText(array.items[i]) \o <<",", "\n">>)
    /\ Contains(text, <<",", "\n", "]">>)

\* C18 (as claimed): array rendering.  An array that is not empty is
\* rendered inline as `[a, b, c]` when it is at nesting level 1 and that
\* rendering is at most 80 characters long; an array at level 1 whose
\* inline rendering is longer, and every array at another level, is
\* rendered one element per line, each indented and ended by a comma, with
\* the closing bracket on its own line.
C18_ArrayRendering ==
    /\ (doc \in FlatArrayDocs /\ pc # "encode") =>
           /\ encoded.ok
           /\ IF Len(InlineArray(FlatArrayOf(doc))) <= WrapWidth
              THEN Contains(encoded.text, InlineArray(FlatArrayOf(doc)))
              ELSE /\ ~Contains(encoded.text, InlineArray(FlatArrayOf(doc)))
                   /\ ElementPerLine(encoded.text, FlatArrayOf(doc))
    /\ (doc \in NestedArrayDocs /\ pc # "encode") =>
           /\ encoded.ok
           /\ ~Contains(encoded.text, InlineArray(NestedArrayOf(doc)))
           /\ ElementPerLine(encoded.text, NestedArrayOf(doc))

\* the k-th smallest number of the set S
NthOf(S, k) == CHOOSE i \in S : Cardinality({j \in S : j < i}) = k - 1

LineBreaks(text) == {i \in DOMAIN text : text[i] = "\n"}

\* the lines of a text, in order: what stands between its line breaks
TextLines(text) ==
    [k \in 1..(Cardinality(LineBreaks(text)) + 1) |->
        SubSeq(text,
               IF k = 1 THEN 1 ELSE NthOf(LineBreaks(text), k - 1) + 1,
               IF k = Cardinality(LineBreaks(text)) + 1 THEN Len(text)
               ELSE NthOf(LineBreaks(text), k) - 1)]

\* the lines that are section headers: those that begin with a bracket
HeaderLines(lines) == {l \in DOMAIN lines : lines[l] # <<>> /\ lines[l][1] = "["}

\* the root entries of doc whose value is a table, in their order
Sections == SelectSeq(doc.items, LAMBDA en : EntryValue(en).t = "MAP")

\* the last line of section k: the end of the text for the last section,
\* else the line before the blank line before the next header
SectionEnd(lines, k) ==
    IF k = Len(Sections) THEN Len(lines) ELSE NthOf(HeaderLines(lines), k + 1) - 2

\* the lines of section k on which an entry begins: those that are not the
\* continuation of an array or table written on several lines, which is
\* indented or closes it
EntryLines(lines, k) ==
    {l \in (NthOf(HeaderLines(lines), k) + 1)..SectionEnd(lines, k) :
        /\ Prefix(lines[l], Len(Indent)) # Indent
        /\ lines[l] \notin {<<"]">>, <<"}">>}}

\* line begins with `key = `, and is `key = value` when value is a scalar
IsEntryLine(line, entry) ==
    /\ Prefix(line, Len(Trim(EntryKey(entry))) + 3)
           = Trim(EntryKey(entry)) \o <<" ", "=", " ">>
    /\ EntryValue(entry).t \notin {"ARRAY", "MAP"} =>
           line = Trim(EntryKey(entry)) \o <<" ", "=", " ">>
                      \o ScalarText(EntryValue(entry))

DateDocs == {d \in Docs : Len(d.items) = 1 /\ EntryValue(d.items[1]).t = "DATE"}

\* C27 (as claimed): date round trip.  Whatever the time zone of the host,
\* decode of the text encode returns for a document whose entry is a date
\* returns a document whose entry is the same instant.
C27_DateRoundTrip ==
    (pc # "encode" /\ doc \in DateDocs /\ st.status # "run") =>
        /\ encoded.ok
        /\ st.status = "done"
        /\ st.result = doc

\* C28 (as claimed): number round trip.  The literal encodeNumber emits
\* for a finite number is taken by matchNumber for a number of the same
\* value: decode of the encoded document returns the document, so the
\* literal is neither sent to the date parser nor rejected.
C28_NumberRoundTrip ==
    (pc # "encode" /\ doc \in NumberDocs /\ st.status # "run") =>
        /\ encoded.ok
        /\ st.status = "done"
        /\ st.result = doc

\* what parsing the value of an entry from place p on comes to: the value
\* and, unless a line break ended it, the check that the line ends after it
\* (lines 406-411); the first of the two that throws, else the last
ValueOutcome(txt, p) ==
    Let(matchNext(txt, p, <<"VALUE">>, "", "", FALSE), LAMBDA entryValue :
        IF ~entryValue.ok \/ entryValue.end = "\n" THEN entryValue
        ELSE matchNext(txt, entryValue.pos, <<"NEW_LINE", "END_OF_INPUT">>, "",
                       entryValue.end, TRUE))

\* how often the words ` at entry ` were appended to a message
Annotations(msg) == Cardinality({i \in DOMAIN msg : msg[i] = " at entry "})

\* C20: entry error annotation.  When a turn of decode has read the key of
\* an entry of the root or of a section and `=`, and parsing the value or
\* checking the end of its line raises a configuration error, decode throws
\* a configuration error whose message is the message raised, then
\* ` at entry `, then the key as repr writes it, the words appended once;
\* when the source of the characters throws a TypeError meanwhile, decode
\* throws it as it is; and when nothing is thrown decode goes on.
C20_EntryErrorAnnotation ==
    [][(pc = "decode" /\ st.status = "run" /\ st' # st) =>
          Let(matchNext(characters, st.p, ExpectKeyAtRoot, "FIRST_LEVEL", "", FALSE),
              LAMBDA entryKey :
              (entryKey.ok /\ entryKey.type # "END_OF_INPUT" /\ entryKey.end = "=") =>
                  Let(ValueOutcome(characters, entryKey.pos), LAMBDA value :
                      IF g.threw /\ value.pos > Len(characters)
                      THEN /\ st'.status = "error"
                           /\ st'.msg = <<"TypeError">>
                      ELSE IF ~value.ok
                      THEN /\ st'.status = "error"
                           /\ st'.msg = value.msg \o <<" at entry ">>
                                            \o repr(entryKey.str, ReprDefaultLength)
                           /\ Annotations(st'.msg) = 1
                      ELSE st'.status = "run"))]_vars

\* decode, given chunks, has thrown the error of the check that the line
\* ends after the value of an entry, with the entry named
C20_Witness ==
    /\ pc = "decode"
    /\ chunks # <<>>
    /\ st.status = "error"
    /\ st.expected = <<"NEW_LINE", "END_OF_INPUT">>
    /\ Annotations(st.msg) = 1
    /\ st.last.key = <<"a">>

\* decode has thrown the TypeError of the source of the characters, which
\* threw it while the value of an entry was parsed
C20_WitnessTypeError ==
    /\ pc = "decode"
    /\ g.threw
    /\ st.status = "error"
    /\ st.msg = <<"TypeError">>
    /\ characters = <<"b", " ", "=", " ">>

(***************************************************************************)
(* Claims about decode of an iterable of chunks (SpecChunks)               *)
(***************************************************************************)

\* the bytes of the first n chunks, end to end
BytesTaken(n) == Flat([i \in 1..n |-> chunks[i].bytes])

\* chunks is a split of the UTF-8 bytes of txt into chunks of bytes
IsSplitOf(txt) ==
    /\ chunks # <<>>
    /\ \A i \in DOMAIN chunks : chunks[i].kind = "bytes"
    /\ BytesTaken(Len(chunks)) = Utf8Encode(txt)

\* what generateFromChunks has yielded of txt after ci chunks: the
\* characters whose bytes have all been taken, each once, and no other;
\* a character some of whose bytes are still to come is held back
YieldedWhole(txt) ==
    /\ ~g.threw
    /\ ~Includes(g.yielded, "FFFD")
    /\ g.yielded = Prefix(txt, Len(g.yielded))
    /\ Len(Utf8Encode(g.yielded)) <= Len(BytesTaken(ci))
    /\ Len(g.yielded) < Len(txt) =>
           Len(BytesTaken(ci)) < Len(Utf8Encode(Prefix(txt, Len(g.yielded) + 1)))

\* C2: chunk-boundary safety.  For every split of the UTF-8 bytes of a
\* text into consecutive chunks, also inside a multi-byte character,
\* generateFromChunks yields every character once and complete, never a
\* replacement character, in the end yields the text, and decode of the
\* chunks gives what decode of the whole text gives.
C2_ChunkBoundarySafety ==
    \A txt \in ChunkTexts :
        IsSplitOf(txt) =>
            /\ YieldedWhole(txt)
            /\ pc = "decode" => characters = txt
            /\ (pc = "decode" /\ st.status # "run") => Outcome(st) = decode(txt)

\* decode has returned a document from three chunks, two of which begin
\* with a continuation byte: both cuts fall inside a multi-byte character
C2_Witness ==
    /\ pc = "decode"
    /\ st.status = "done"
    /\ Len(chunks) = 3
    /\ \A i \in DOMAIN chunks : chunks[i].kind = "bytes"
    /\ \A i \in {2, 3} :
           chunks[i].bytes # <<>> /\ Head(chunks[i].bytes) \in 128..191
    /\ Includes(characters, "E4")

\* C10 (as claimed): the mode is fixed by the first chunk.  When the
\* first chunk is text no decoder is ever made for a later chunk, and
\* when it is bytes the decoder made for it stays in use.
C10_ModeFixedByFirstChunk ==
    ci >= 1 =>
        IF chunks[1].kind = "text" THEN g.mode # "decoder" ELSE g.mode = "decoder"

(***************************************************************************)
(* Claims about encode of a value graph (SpecGraph)                        *)
(***************************************************************************)

\* the Arrays and Tables the node n holds
Refs(n) == {heap[n].kids[i].ref : i \in DOMAIN heap[n].kids} \ {0}

RECURSIVE ReachableIn(_, _)
\* the nodes reached from those of S in at most k steps
ReachableIn(S, k) ==
    IF k = 0 THEN S ELSE ReachableIn(S \cup UNION {Refs(n) : n \in S}, k - 1)

\* the Arrays and Tables reachable from node n, in one step or more
Descendants(n) == ReachableIn(Refs(n), HeapSize)

\* the Arrays and Tables of the document
DocumentNodes == {1} \cup Descendants(1)

\* an Array or Table of the document is reachable from itself
Cyclic == \E n \in DocumentNodes : n \in Descendants(n)

\* every key of every Table of the document is valid
KeysValid ==
    \A n \in DocumentNodes :
        heap[n].t = "MAP" =>
            \A i \in DOMAIN heap[n].kids : checkKey(heap[n].kids[i].key).ok

\* encode has returned or thrown
Ended == outcome \notin {"start", "run"}

\* C6 (as claimed): cycle rejection.  For every value graph in which an
\* Array or Table is reachable from itself, what encode ends with is
\* the circular-reference error.
C6_CycleRaisesCircularReference ==
    (Cyclic /\ Ended) => outcome = CircularReference

\* C6 (amended): for every value graph in which an Array or Table is
\* reachable from itself, encode never has more calls in progress than
\* the graph has Arrays and Tables, never returns a text, and ends by
\* raising an error; when all the keys of the graph are valid the error
\* is the circular-reference error.
C6_CycleRejection ==
    /\ [](Len(stack) <= HeapSize)
    /\ [](Cyclic => outcome # "done")
    /\ (pc = "graph" /\ Cyclic) ~> (outcome \in {CircularReference, InvalidKey})
    /\ []((Cyclic /\ KeysValid /\ Ended) => outcome = CircularReference)

\* encode has thrown the circular-reference error two calls deep, on a
\* graph with valid keys in which node 2 leads back to node 1
C6_Witness ==
    /\ outcome = CircularReference
    /\ KeysValid
    /\ Len(stack) = 2
    /\ 1 \in Refs(2)

(***************************************************************************)
(* Claims about decode of an asynchronous source (SpecStream)              *)
(***************************************************************************)

\* what decode of the chunk iterable list returns or throws at once
DecodeChunks(list) == Outcome(matchEntriesOf(generateFromChunks(list), Options))

\* the promise is settled
Settled == promise \in {"fulfilled", "rejected"}

\* C11 (as claimed): decode of a stream or a blob returns a deferred value;
\* while it is pending nothing is tokenized and the chunks read so far are
\* buffered; tokenizing starts when all chunks are buffered; and for chunks
\* that decode accepts as an iterable, the deferred value is fulfilled with
\* the Document decode returns for that iterable.
C11_StreamDecode ==
    /\ promise = "pending" => (st = EntriesStart /\ buffer = Prefix(chunks, ci))
    /\ st # EntriesStart => (Settled /\ buffer = chunks)
    /\ (Settled /\ DecodeChunks(chunks).ok) =>
           /\ promise = "fulfilled"
           /\ Outcome(st) = DecodeChunks(chunks)

(***************************************************************************)
(* Claims about what encode does to the graph it is given (SpecGraph)      *)
(***************************************************************************)

\* C14: the encoder never mutates its input.  From the call of encode on,
\* whether it returns or raises, no step changes an Array or a Table of the
\* graph: each keeps its entries, in their order, holding the same values.
C14_InputNotMutated == [][outcome # "start" => heap' = heap]_vars

\* encode has returned the text of a document with two root entries, one
\* of them an Array or a Table that is not empty: the end of the last entry
\* has been dropped in the root and in the nested value
C14_Witness ==
    /\ outcome = "done"
    /\ encoded.ok
    /\ Len(heap[1].kids) = 2
    /\ \E n \in Refs(1) : heap[n].kids # <<>>

\* the Arrays and Tables whose rendering has started and has not ended:
\* the inputs of the calls in progress
InProgress == {stack[i].node : i \in DOMAIN stack}

\* the root holds the same Array under two keys, and encode has returned
SharedBySiblings ==
    /\ outcome = "done"
    /\ Len(heap[1].kids) = 2
    /\ heap[1].kids[1].ref = 2
    /\ heap[1].kids[2].ref = 2
    /\ heap[2].t = "ARRAY"

\* the text encode returned is `key = R`, a line break and `key = R` once
\* more, R being one and the same rendering
RenderedTwice ==
    Let((Len(encoded.text) - 5) \div 2, LAMBDA r :
        /\ r >= 1
        /\ Len(encoded.text) = 5 + 2 * r
        /\ SubSeq(encoded.text, 3, 2 + r) = SubSeq(encoded.text, r + 6, 5 + 2 * r)
        /\ encoded.text[r + 3] = "\n")

\* C16: the protocol of cycle tracking.  At every moment of encode the set
\* `references` holds the Arrays and Tables whose rendering has started and
\* has not ended, each once, which are the inputs of the chain of calls in
\* progress; it is empty when encode returns; and in a graph without a
\* cycle no circular-reference error is raised, so that an Array two
\* siblings share is rendered twice.
C16_CycleTracking ==
    /\ references = InProgress
    /\ Cardinality(references) = Len(stack)
    /\ outcome = "done" => references = {}
    /\ ~Cyclic => outcome # CircularReference
    /\ SharedBySiblings => (encoded.ok /\ RenderedTwice)

\* encode has returned the text of a root that holds under two keys the
\* same Array, which holds a scalar
C16_Witness ==
    /\ SharedBySiblings
    /\ heap[2].kids # <<>>
    /\ references = {}
    /\ encoded.ok


(***************************************************************************)
(* Claims about a call of matchUntil (SpecUntil)                           *)
(***************************************************************************)

RECURSIVE ReadUntil(_, _)
\* reading s from its start: a backslash is dropped and the character after
\* it taken as it is; the first other character that is a delimiter ends
\* the reading; every other character is taken
ReadUntil(s, delimiters) ==
    IF s = <<>> THEN [found |-> FALSE, str |-> <<>>, end |-> ""]
    ELSE IF Head(s) = "\\"
    THEN IF Len(s) = 1 THEN [found |-> FALSE, str |-> <<>>, end |-> ""]
         ELSE [ReadUntil(SubSeq(s, 3, Len(s)), delimiters) EXCEPT !.str = <<s[2]>> \o @]
    ELSE IF Head(s) \in Range(delimiters)
    THEN [found |-> TRUE, str |-> <<>>, end |-> Head(s)]
    ELSE [ReadUntil(Tail(s), delimiters) EXCEPT !.str = <<Head(s)>> \o @]

\* C21: matchUntil.  The call returns the characters read before the first
\* delimiter that no backslash escapes, and that delimiter; a backslash is
\* dropped and the character after it is part of the result, also when it
\* is a delimiter or a backslash; when the input ends first, the call
\* returns the characters read and an empty delimiter if endOfInput is
\* true, and throws a ConfigError that names the end of input if not.
C21_MatchUntil ==
    pc = "done" /\ call # NoCall =>
        Let(ReadUntil(call.txt, call.delimiters), LAMBDA read :
            IF read.found \/ call.endOfInput
            THEN /\ returned.ok
                 /\ returned.str = read.str
                 /\ returned.end = read.end
            ELSE /\ ~returned.ok
                 /\ returned.msg[Len(returned.msg)]
                        \in {"delimiter expected but end of input reached",
                             " expected but end of input reached"})

\* matchUntil has returned a text with a delimiter and a backslash that were
\* escaped in it, and the delimiter that followed
C21_Witness ==
    /\ pc = "done"
    /\ call.txt = <<"\\", "\"", "\\", "\\", "\"">>
    /\ returned.ok
    /\ returned.str = <<"\"", "\\">>
    /\ returned.end = "\""

\* what matchNext returns when called with the generator at place p, a
\* value or the end of a list expected
NextFrom(p) == matchNext(characters, p, ExpectValueInList, "", "", FALSE)

\* matchNext called from any place of the text returns or throws at a place
\* that is not before the one it was called from and not after the end of
\* the input; when it returns a token it has taken at least one character
MatchNextConsumes ==
    \A p \in 0..Len(characters) :
        /\ NextFrom(p).pos >= p
        /\ NextFrom(p).pos <= Len(characters) + 1
        /\ NextFrom(p).ok => NextFrom(p).pos > p

\* a turn of the loop of matchEntries either ends decode or leaves the
\* generator further in the text than it was; no turn moves it back
TurnConsumes ==
    /\ st'.p >= st.p
    /\ st'.status = "run" => st'.p > st.p

\* C30: termination.  decode of a finite text ends, with a document or an
\* error: every turn of matchEntries that does not end it takes at least
\* one character from the generator, which never goes back and never yields
\* more than the characters of the text and the report that it is done; and
\* matchNext, with the loops of matchArray and matchMap inside it, started
\* at any place of the text, returns or throws without going back.
C30_DecodeTerminates ==
    /\ [](st.p <= Len(characters) + 1)
    /\ [](st.p = 0 => MatchNextConsumes)
    /\ [][TurnConsumes]_vars
    /\ <>(st.status \in {"done", "error"})

\* decode has returned a document with arrays and inline tables three deep
\* after more than one turn, the whole text read
C30_Witness ==
    /\ st.status = "done"
    /\ st.p = Len(characters) + 1
    /\ characters \in NestTexts
    /\ MapHas(st.result, <<"x">>)
    /\ MapHas(st.result, <<"a">>)
    /\ MapGet(st.result, <<"a">>).t = "ARRAY"

=============================================================================
